---- MODULE Spec2Model ----
(***************************************************************************)
(* The council pipeline of backend/council.py, backend/openrouter.py and   *)
(* backend/main.py: concurrent dispatch with one retry round (batch),      *)
(* streaming collection with the majority event, and the three-stage       *)
(* coordinator in its three entry points (run_full_council, and the        *)
(* streamed endpoint with majority_mode off and on).                       *)
(*                                                                         *)
(* A query_model call is one in-flight operation that settles with either  *)
(* a response dict or None.  Workers are the integers 1..N, listed in      *)
(* `models` in candidate order.  Python's None is the empty tuple and a    *)
(* present value v is <<v>>, so that optional values compare safely.       *)
(*                                                                         *)
(* `models` is the candidate list after the coding-model filter of stage 1 *)
(* (the configuration is read once and is fixed during a run).  A step of  *)
(* a streaming stage is one task settling together with the coordinator's  *)
(* handling of it; elapsed times are whole seconds.                        *)
(***************************************************************************)
EXTENDS Integers, Sequences, FiniteSets, TLC

\* Largest council size explored.
MaxModels == 3

\* query_model / query_models_parallel / query_models_streaming default timeout.
DEFAULT_TIMEOUT == 120
\* Retry timeout when no first attempt succeeded.
NO_SUCCESS_RETRY_TIMEOUT == 120
\* Floor of the retry timeout.
MIN_RETRY_TIMEOUT == 10

None == <<>>
Some(v) == <<v>>

MIGHT_RETRY == "No response. Might retry."
NO_RESPONSE == "No response."
SECOND_ATTEMPT_PREFIX == "Model did not reply on the first attempt. This is the second attempt\n"
CHAIRMAN_FALLBACK == "Error: Unable to generate final synthesis."
ALL_FAILED == "All models failed to respond. Please try again."

Modes == {"full", "batch", "quorum"}

\* What a successful stage-1 query_model call can return.
Stage1Responses ==
    { [content |-> "answer", elapsed_time |-> Some(5), usage |-> Some("usage"), cost |-> None],
      [content |-> "answer", elapsed_time |-> Some(30), usage |-> Some("usage"), cost |-> Some(1)] }

\* What a successful judge call can return.
Stage2Responses ==
    { [content |-> "ranking text", elapsed_time |-> Some(5), usage |-> Some("usage"), cost |-> Some(1)] }

\* What a successful chairman call can return.
Stage3Responses ==
    { [content |-> "synthesis", elapsed_time |-> Some(5), usage |-> Some("usage"), cost |-> Some(1)] }

\* Outcomes of one query_model call: None on any failure.
Outcomes(S) == {None} \cup {Some(r) : r \in S}

VARIABLES
    mode,                    \* entry point: run_full_council, streamed batch, streamed quorum
    models,                  \* the candidate list, in original order
    pc,                      \* position of the coordinator
    calls,                   \* log of dispatch rounds: [stage, models, timeout]
    pending,                 \* workers whose current call has not settled
    responses,               \* batch stage 1: first-attempt responses
    retry_timeout,           \* batch stage 1: computed retry timeout (None before)
    retry_responses,         \* batch stage 1: retry-round responses
    stage1_results,          \* final stage-1 output
    results,                 \* streaming: worker -> record accumulated so far
    completed_count,         \* streaming: query_models_streaming's counter
    majority_yielded,        \* streaming: the generator's flag
    events,                  \* streaming: events yielded by the stage-1 / stage-2 generator
    stage1_majority_results, \* event_generator: stage-1 majority snapshot
    stage2_majority_results, \* event_generator: stage-2 majority snapshot
    stage2_input,            \* the stage-1 list given to stage 2
    label_to_model,          \* k-th label -> worker
    judges,                  \* stage-2 judge list
    judge_responses,         \* batch stage 2: responses
    stage2_results,          \* final stage-2 output
    stage3_args,             \* arguments of stage3_synthesize_final (None before)
    stage3_result,           \* None before
    chairman_response,       \* stage3_synthesize_final: the chairman's response (None before)
    sse,                     \* event types sent by event_generator
    ranking_text,            \* parse_ranking_from_text: its argument (None when not called)
    parsed_ranking,          \* parse_ranking_from_text: its return value (None before)
    aggregate,               \* calculate_aggregate_rankings: its return value (None before)
    title_task,              \* event_generator: "none", or the title task "running" / "done"
    title_response,          \* the title task's query_model outcome (None before it settles)
    title,                   \* storage: the conversation's title
    saved                    \* storage: the assistant message of this run (None before)

vars == << mode, models, pc, calls, pending, responses, retry_timeout, retry_responses,
           stage1_results, results, completed_count, majority_yielded, events,
           stage1_majority_results, stage2_majority_results, stage2_input,
           label_to_model, judges, judge_responses, stage2_results, stage3_args,
           stage3_result, chairman_response, sse, ranking_text, parsed_ranking, aggregate,
           title_task, title_response, title, saved >>

\* The variables of the two pure functions, which no pipeline step touches.
function_vars == << ranking_text, parsed_ranking, aggregate >>

\* The variables of the title task and of storage, which no stage touches.
stream_vars == << title_task, title_response, title, saved >>

\* The title a conversation is created with, and the fallback of the title task
\* ("New Conversation", as a sequence of characters).
DEFAULT_TITLE ==
    << "N", "e", "w", " ", "C", "o", "n", "v", "e", "r", "s", "a", "t", "i", "o", "n" >>

\* No title task was created and nothing was stored.
StreamIdle ==
    /\ title_task = "none"
    /\ title_response = None
    /\ title = DEFAULT_TITLE
    /\ saved = None

\* ---------------------------------------------------------------- helpers

Range(s) == { s[i] : i \in DOMAIN s }

\* Index of worker m in the list ms (ms is duplicate-free).
Position(ms, m) == CHOOSE i \in DOMAIN ms : ms[i] = m

Max(S) == CHOOSE x \in S : \A y \in S : y <= x

RECURSIVE Flatten(_)
Flatten(ss) == IF ss = <<>> THEN <<>> ELSE Head(ss) \o Flatten(Tail(ss))

\* Mutant of MajorityThreshold: floor instead of ceiling.
MajorityThresholdFloor(total) == total \div 2

\* math.ceil(total / 2)
MajorityThreshold(total) == (total + 1) \div 2

\* The record stored for a response dict r of worker m.
ResultRecord(m, text, r) ==
    [model |-> m, response |-> text, elapsed_time |-> r.elapsed_time,
     usage |-> r.usage, cost |-> r.cost]

PlaceholderRecord(m, text) ==
    [model |-> m, response |-> text, elapsed_time |-> None, usage |-> None, cost |-> None]

\* ---------------------------------------------------------------- batch stage 1

\* Mutant of RetryTimeout: the 10 s floor is not applied.
RetryTimeoutNoFloor(resp) ==
    LET successful_durations ==
            { resp[m][1].elapsed_time[1] :
                m \in { x \in DOMAIN resp : resp[x] # None /\ resp[x][1].elapsed_time # None } }
    IN  IF successful_durations # {} THEN Max(successful_durations)
        ELSE NO_SUCCESS_RETRY_TIMEOUT

\* successful_durations and the two max() lines.
RetryTimeout(resp) ==
    LET successful_durations ==
            { resp[m][1].elapsed_time[1] :
                m \in { x \in DOMAIN resp : resp[x] # None /\ resp[x][1].elapsed_time # None } }
        first == IF successful_durations # {} THEN Max(successful_durations)
                 ELSE NO_SUCCESS_RETRY_TIMEOUT
    IN  IF first >= MIN_RETRY_TIMEOUT THEN first ELSE MIN_RETRY_TIMEOUT

\* Mutant of FailedModels: the retry round is issued for every candidate.
FailedModelsEveryone(ms, resp) == ms

\* failed_models, in dict (= candidate) order.
FailedModels(ms, resp) == SelectSeq(ms, LAMBDA m : resp[m] = None)

\* retry_responses.get(model)
Get(d, m) == IF m \in DOMAIN d THEN d[m] ELSE None

\* Mutant of Stage1RecordsFor: a retried success replaces the placeholder.
Stage1RecordsForReplacing(m, first_response, second_response) ==
    IF first_response # None
    THEN << ResultRecord(m, first_response[1].content, first_response[1]) >>
    ELSE IF second_response # None
         THEN << ResultRecord(m, SECOND_ATTEMPT_PREFIX \o second_response[1].content,
                              second_response[1]) >>
         ELSE << PlaceholderRecord(m, MIGHT_RETRY) >>

\* Mutant of Stage1RecordsFor: the retry is recorded whether or not it responded.
Stage1RecordsForAlwaysRetryRecord(m, first_response, second_response) ==
    IF first_response # None
    THEN << ResultRecord(m, first_response[1].content, first_response[1]) >>
    ELSE << PlaceholderRecord(m, MIGHT_RETRY),
            IF second_response # None
            THEN ResultRecord(m, SECOND_ATTEMPT_PREFIX \o second_response[1].content,
                              second_response[1])
            ELSE PlaceholderRecord(m, MIGHT_RETRY) >>

\* Mutant of Stage1RecordsFor: a worker that failed both attempts leaves no record.
Stage1RecordsForDroppingFailures(m, first_response, second_response) ==
    IF first_response # None
    THEN << ResultRecord(m, first_response[1].content, first_response[1]) >>
    ELSE IF second_response # None
         THEN << PlaceholderRecord(m, MIGHT_RETRY),
                 ResultRecord(m, SECOND_ATTEMPT_PREFIX \o second_response[1].content,
                              second_response[1]) >>
         ELSE << >>

\* Body of the formatting loop for one worker.
Stage1RecordsFor(m, first_response, second_response) ==
    IF first_response # None
    THEN << ResultRecord(m, first_response[1].content, first_response[1]) >>
    ELSE << PlaceholderRecord(m, MIGHT_RETRY) >>
         \o (IF second_response # None
             THEN << ResultRecord(m, SECOND_ATTEMPT_PREFIX \o second_response[1].content,
                                  second_response[1]) >>
             ELSE << >>)

\* Mutant of FormatStage1Results: retried successes are appended after the first pass.
FormatStage1ResultsRetriesLast(ms, resp, retry) ==
    LET retried == SelectSeq(ms, LAMBDA m : resp[m] = None /\ Get(retry, m) # None)
    IN  [ i \in DOMAIN ms |->
            IF resp[ms[i]] # None
            THEN ResultRecord(ms[i], resp[ms[i]][1].content, resp[ms[i]][1])
            ELSE PlaceholderRecord(ms[i], MIGHT_RETRY) ]
        \o [ i \in DOMAIN retried |->
               ResultRecord(retried[i], SECOND_ATTEMPT_PREFIX \o retry[retried[i]][1].content,
                            retry[retried[i]][1]) ]

\* The formatting loop over models in original order.
FormatStage1Results(ms, resp, retry) ==
    Flatten([ i \in DOMAIN ms |-> Stage1RecordsFor(ms[i], resp[ms[i]], Get(retry, ms[i])) ])

\* query_models_parallel(models, messages) of stage 1: one call per candidate.
Stage1Dispatch ==
    /\ pc = "start"
    /\ mode \in {"full", "batch"}
    /\ calls' = Append(calls, [stage |-> 1, models |-> models, timeout |-> DEFAULT_TIMEOUT])
    /\ pending' = Range(models)
    /\ responses' = [ m \in Range(models) |-> None ]
    /\ sse' = IF mode = "batch" THEN Append(sse, "stage1_start") ELSE sse
    /\ pc' = "s1_gather"
    /\ UNCHANGED << function_vars, stream_vars, mode, models, retry_timeout, retry_responses, stage1_results, results,
                    completed_count, majority_yielded, events, stage1_majority_results,
                    stage2_majority_results, stage2_input, label_to_model, judges,
                    judge_responses, stage2_results, stage3_args, stage3_result, chairman_response >>

\* Mutant of SettleFirst: a failing call aborts the gather and the calls still in
\* flight are abandoned.
SettleFirstFailFast(m, r) ==
    /\ pc = "s1_gather"
    /\ m \in pending
    /\ pending' = IF r = None THEN {} ELSE pending \ {m}
    /\ responses' = [responses EXCEPT ![m] = r]
    /\ UNCHANGED << function_vars, stream_vars, mode, models, pc, calls, retry_timeout, retry_responses, stage1_results,
                    results, completed_count, majority_yielded, events,
                    stage1_majority_results, stage2_majority_results, stage2_input,
                    label_to_model, judges, judge_responses, stage2_results, stage3_args,
                    stage3_result, chairman_response, sse >>

\* One first-attempt call settles inside asyncio.gather.
SettleFirst(m, r) ==
    /\ pc = "s1_gather"
    /\ m \in pending
    /\ pending' = pending \ {m}
    /\ responses' = [responses EXCEPT ![m] = r]
    /\ UNCHANGED << function_vars, stream_vars, mode, models, pc, calls, retry_timeout, retry_responses, stage1_results,
                    results, completed_count, majority_yielded, events,
                    stage1_majority_results, stage2_majority_results, stage2_input,
                    label_to_model, judges, judge_responses, stage2_results, stage3_args,
                    stage3_result, chairman_response, sse >>

\* Variant: the retry round is issued but not awaited; stage 1 returns at once.
Stage1FirstRoundDoneRetryInBackground ==
    /\ pc = "s1_gather"
    /\ pending = {}
    /\ retry_timeout' = Some(RetryTimeout(responses))
    /\ LET failed_models == FailedModels(models, responses) IN
       IF failed_models # <<>>
       THEN /\ calls' = Append(calls, [stage |-> 1, models |-> failed_models,
                                       timeout |-> RetryTimeout(responses)])
            /\ pending' = Range(failed_models)
            /\ retry_responses' = [ m \in Range(failed_models) |-> None ]
       ELSE UNCHANGED << calls, pending, retry_responses >>
    /\ stage1_results' = FormatStage1Results(models, responses, retry_responses')
    /\ sse' = IF mode = "batch" THEN Append(sse, "stage1_complete") ELSE sse
    /\ pc' = "s1_done"
    /\ UNCHANGED << function_vars, stream_vars, mode, models, responses, results, completed_count, majority_yielded,
                    events, stage1_majority_results, stage2_majority_results, stage2_input,
                    label_to_model, judges, judge_responses, stage2_results, stage3_args,
                    stage3_result, chairman_response >>

\* gather returned: compute the retry timeout; retry the failed workers, or format.
Stage1FirstRoundDone ==
    /\ pc = "s1_gather"
    /\ pending = {}
    /\ retry_timeout' = Some(RetryTimeout(responses))
    /\ LET failed_models == FailedModels(models, responses) IN
       IF failed_models # <<>>
       THEN /\ calls' = Append(calls, [stage |-> 1, models |-> failed_models,
                                       timeout |-> RetryTimeout(responses)])
            /\ pending' = Range(failed_models)
            /\ retry_responses' = [ m \in Range(failed_models) |-> None ]
            /\ pc' = "s1_retry"
            /\ UNCHANGED << stage1_results, sse >>
       ELSE /\ stage1_results' = FormatStage1Results(models, responses, retry_responses)
            /\ sse' = IF mode = "batch" THEN Append(sse, "stage1_complete") ELSE sse
            /\ pc' = "s1_done"
            /\ UNCHANGED << calls, pending, retry_responses >>
    /\ UNCHANGED << function_vars, stream_vars, mode, models, responses, results, completed_count, majority_yielded,
                    events, stage1_majority_results, stage2_majority_results, stage2_input,
                    label_to_model, judges, judge_responses, stage2_results, stage3_args,
                    stage3_result, chairman_response >>

\* One retry call settles inside the second asyncio.gather.
SettleRetry(m, r) ==
    /\ pc = "s1_retry"
    /\ m \in pending
    /\ pending' = pending \ {m}
    /\ retry_responses' = [retry_responses EXCEPT ![m] = r]
    /\ UNCHANGED << function_vars, stream_vars, mode, models, pc, calls, responses, retry_timeout, stage1_results,
                    results, completed_count, majority_yielded, events,
                    stage1_majority_results, stage2_majority_results, stage2_input,
                    label_to_model, judges, judge_responses, stage2_results, stage3_args,
                    stage3_result, chairman_response, sse >>

\* The retry gather returned: format and return.
Stage1RetryDone ==
    /\ pc = "s1_retry"
    /\ pending = {}
    /\ stage1_results' = FormatStage1Results(models, responses, retry_responses)
    /\ sse' = IF mode = "batch" THEN Append(sse, "stage1_complete") ELSE sse
    /\ pc' = "s1_done"
    /\ UNCHANGED << function_vars, stream_vars, mode, models, calls, pending, responses, retry_timeout, retry_responses,
                    results, completed_count, majority_yielded, events,
                    stage1_majority_results, stage2_majority_results, stage2_input,
                    label_to_model, judges, judge_responses, stage2_results, stage3_args,
                    stage3_result, chairman_response >>

\* ---------------------------------------------------------------- streaming collection

\* Mutant of OrderedResults: the candidate list is walked backwards.
OrderedResultsReversed(ms, res) ==
    LET present == SelectSeq(ms, LAMBDA m : m \in DOMAIN res)
    IN  [ i \in DOMAIN present |-> res[present[Len(present) + 1 - i]] ]

\* [results[m] for m in models if m in results]
OrderedResults(ms, res) ==
    LET present == SelectSeq(ms, LAMBDA m : m \in DOMAIN res)
    IN  [ i \in DOMAIN present |-> res[present[i]] ]

\* Mutant of FinalStage1Results: failed candidates get no placeholder.
FinalStage1ResultsSuccessesOnly(ms, res) ==
    LET present == SelectSeq(ms, LAMBDA m : m \in DOMAIN res)
    IN  [ i \in DOMAIN present |-> res[present[i]] ]

\* Mutant of FinalStage1Results: the final list walks the candidates backwards.
FinalStage1ResultsBackwards(ms, res) ==
    [ i \in DOMAIN ms |->
        LET m == ms[Len(ms) + 1 - i] IN
        IF m \in DOMAIN res THEN res[m] ELSE PlaceholderRecord(m, NO_RESPONSE) ]

\* The final loop of stage1_collect_responses_streaming.
FinalStage1Results(ms, res) ==
    [ i \in DOMAIN ms |->
        IF ms[i] \in DOMAIN res THEN res[ms[i]] ELSE PlaceholderRecord(ms[i], NO_RESPONSE) ]

\* Mutant of StoreResult: the map is rebuilt from a stale (empty) copy, losing the
\* entries written before.
StoreResultOverwriting(res, m, result) == (m :> result)

\* results[model] = result
StoreResult(res, m, result) == (m :> result) @@ res

\* The guard of the majority_reached yield.
MajorityDue(majority_mode, yielded, n_results, threshold) ==
    majority_mode /\ ~yielded /\ n_results >= threshold

\* Python truthiness of an optional list.
Truthy(opt) == opt # None /\ opt[1] # <<>>

\* query_models_streaming creates one task per candidate; stage1_start is sent.
Stage1StreamStart ==
    /\ pc = "start"
    /\ mode = "quorum"
    /\ calls' = Append(calls, [stage |-> 1, models |-> models, timeout |-> DEFAULT_TIMEOUT])
    /\ pending' = Range(models)
    /\ results' = <<>>
    /\ completed_count' = 0
    /\ majority_yielded' = FALSE
    /\ sse' = Append(sse, "stage1_start")
    /\ pc' = "s1_stream"
    /\ UNCHANGED << function_vars, stream_vars, mode, models, responses, retry_timeout, retry_responses, stage1_results,
                    events, stage1_majority_results, stage2_majority_results, stage2_input,
                    label_to_model, judges, judge_responses, stage2_results, stage3_args,
                    stage3_result, chairman_response >>

\* One stage-1 task settles and is handled: the loop body of query_models_streaming,
\* of stage1_collect_responses_streaming and of event_generator for its events.
Stage1StreamStep(m, r) ==
    /\ pc = "s1_stream"
    /\ m \in pending
    /\ pending' = pending \ {m}
    /\ completed_count' = completed_count + 1
    /\ LET total_models == Len(models)
           majority_threshold == MajorityThreshold(total_models)
       IN
       IF r # None
       THEN LET result == ResultRecord(m, r[1].content, r[1])
                new_results == StoreResult(results, m, result)
                complete == [type |-> "model_complete", model |-> m, response |-> result,
                             completed |-> completed_count + 1, total |-> total_models]
            IN  /\ results' = new_results
                /\ IF MajorityDue(TRUE, majority_yielded, Cardinality(DOMAIN new_results),
                                  majority_threshold)
                   THEN LET ordered_results == OrderedResults(models, new_results) IN
                        /\ majority_yielded' = TRUE
                        /\ events' = [events EXCEPT ![1] = @ \o
                               << complete,
                                  [type |-> "majority_reached", results |-> ordered_results,
                                   completed |-> Cardinality(DOMAIN new_results),
                                   total |-> total_models] >>]
                        /\ stage1_majority_results' = Some(ordered_results)
                        /\ sse' = sse \o << "stage1_model_complete", "stage1_majority",
                                            "stage2_start" >>
                   ELSE /\ events' = [events EXCEPT ![1] = Append(@, complete)]
                        /\ sse' = Append(sse, "stage1_model_complete")
                        /\ UNCHANGED << majority_yielded, stage1_majority_results >>
       ELSE /\ events' = [events EXCEPT ![1] = Append(@,
                   [type |-> "model_failed", model |-> m,
                    completed |-> completed_count + 1, total |-> total_models])]
            /\ sse' = Append(sse, "stage1_model_failed")
            /\ UNCHANGED << results, majority_yielded, stage1_majority_results, chairman_response >>
    /\ UNCHANGED << function_vars, stream_vars, mode, models, pc, calls, responses, retry_timeout, retry_responses,
                    stage1_results, stage2_majority_results, stage2_input, label_to_model,
                    judges, judge_responses, stage2_results, stage3_args, stage3_result, chairman_response >>

\* Mutant of Stage1StreamComplete: the batch retry round ported to streaming; the
\* candidates without a result are invoked once more before the stage completes.
Stage1StreamCompleteWithRetry ==
    /\ pc = "s1_stream"
    /\ pending = {}
    /\ LET failed_models == SelectSeq(models, LAMBDA m : m \notin DOMAIN results)
           final == FinalStage1Results(models, results)
       IN  IF failed_models # <<>> /\ Len(calls) < 2
           THEN /\ calls' = Append(calls, [stage |-> 1, models |-> failed_models,
                                           timeout |-> DEFAULT_TIMEOUT])
                /\ pending' = Range(failed_models)
                /\ UNCHANGED << stage1_results, events, sse, pc >>
           ELSE /\ stage1_results' = final
                /\ events' = [events EXCEPT ![1] =
                       Append(@, [type |-> "stage_complete", results |-> final])]
                /\ sse' = Append(sse, "stage1_complete")
                /\ pc' = "s1_done"
                /\ UNCHANGED << calls, pending >>
    /\ UNCHANGED << function_vars, stream_vars, mode, models, responses, retry_timeout, retry_responses,
                    results, completed_count, majority_yielded, stage1_majority_results,
                    stage2_majority_results, stage2_input, label_to_model, judges,
                    judge_responses, stage2_results, stage3_args, stage3_result,
                    chairman_response >>

\* Mutant of Stage1StreamComplete: the stage completes as soon as the majority event
\* was yielded, abandoning the calls still in flight.
Stage1StreamCompleteAtMajority ==
    /\ pc = "s1_stream"
    /\ pending = {} \/ majority_yielded
    /\ LET final == FinalStage1Results(models, results) IN
       /\ stage1_results' = final
       /\ events' = [events EXCEPT ![1] =
              Append(@, [type |-> "stage_complete", results |-> final])]
    /\ sse' = Append(sse, "stage1_complete")
    /\ pc' = "s1_done"
    /\ UNCHANGED << function_vars, stream_vars, mode, models, calls, pending, responses, retry_timeout, retry_responses,
                    results, completed_count, majority_yielded, stage1_majority_results,
                    stage2_majority_results, stage2_input, label_to_model, judges,
                    judge_responses, stage2_results, stage3_args, stage3_result,
                    chairman_response >>

\* No task is pending: build the final list and yield stage_complete.
Stage1StreamComplete ==
    /\ pc = "s1_stream"
    /\ pending = {}
    /\ LET final == FinalStage1Results(models, results) IN
       /\ stage1_results' = final
       /\ events' = [events EXCEPT ![1] =
              Append(@, [type |-> "stage_complete", results |-> final])]
    /\ sse' = Append(sse, "stage1_complete")
    /\ pc' = "s1_done"
    /\ UNCHANGED << function_vars, stream_vars, mode, models, calls, pending, responses, retry_timeout, retry_responses,
                    results, completed_count, majority_yielded, stage1_majority_results,
                    stage2_majority_results, stage2_input, label_to_model, judges,
                    judge_responses, stage2_results, stage3_args, stage3_result, chairman_response >>

\* ---------------------------------------------------------------- stage 2

\* Variant: the labels are handed out from the end of the stage-1 list.
LabelToModelFromLast(s1) == [ k \in DOMAIN s1 |-> s1[Len(s1) + 1 - k].model ]

\* label_to_model: the k-th label (chr(64 + k)) maps to the worker of the k-th record.
LabelToModel(s1) == [ k \in DOMAIN s1 |-> s1[k].model ]

\* Variant: every worker with a record counts as successful, placeholders included.
SuccessfulModelsEveryRecord(s1, placeholders) == { s1[k].model : k \in DOMAIN s1 }

\* successful_models: workers with a record whose response is no placeholder text.
SuccessfulModels(s1, placeholders) ==
    { s1[k].model : k \in { j \in DOMAIN s1 : s1[j].response \notin placeholders } }

\* judges = [m for m in get_council_models_active() if m in successful_models]
Judges(active, successful_models) == SelectSeq(active, LAMBDA m : m \in successful_models)

\* The record stored for a judge's response dict r.  Its parsed_ranking is a function
\* of `ranking` alone (parse_ranking_from_text) and is not carried in the record.
RankingRecord(m, r) ==
    [model |-> m, ranking |-> r.content, elapsed_time |-> r.elapsed_time, cost |-> r.cost]

\* Variant: a judge that did not answer is listed with a placeholder ranking.
FormatStage2ResultsWithPlaceholders(js, resp) ==
    [ i \in DOMAIN js |->
        IF resp[js[i]] # None
        THEN RankingRecord(js[i], resp[js[i]][1])
        ELSE [model |-> js[i], ranking |-> MIGHT_RETRY, elapsed_time |-> None, cost |-> None] ]

\* The result loop of stage2_collect_rankings.
FormatStage2Results(js, resp) ==
    LET answered == SelectSeq(js, LAMBDA m : resp[m] # None)
    IN  [ i \in DOMAIN answered |-> RankingRecord(answered[i], resp[answered[i]][1]) ]

\* Variant: the run is also abandoned when stage 2 collected no ranking.
RunFullFailedAfterRankings ==
    /\ mode = "full"
    /\ \/ pc = "s1_done" /\ stage1_results = <<>>
       \/ pc = "s2_done" /\ stage2_results = <<>>
    /\ stage3_result' = Some([model |-> "error", response |-> ALL_FAILED])
    /\ pc' = "failed"
    /\ UNCHANGED << function_vars, stream_vars, mode, models, calls, pending, responses, retry_timeout, retry_responses,
                    stage1_results, results, completed_count, majority_yielded, events,
                    stage1_majority_results, stage2_majority_results, stage2_input,
                    label_to_model, judges, judge_responses, stage2_results, stage3_args,
                    sse, chairman_response >>

\* run_full_council: "if not stage1_results" returns the error result.
RunFullFailed ==
    /\ pc = "s1_done"
    /\ mode = "full"
    /\ stage1_results = <<>>
    /\ stage3_result' = Some([model |-> "error", response |-> ALL_FAILED])
    /\ pc' = "failed"
    /\ UNCHANGED << function_vars, stream_vars, mode, models, calls, pending, responses, retry_timeout, retry_responses,
                    stage1_results, results, completed_count, majority_yielded, events,
                    stage1_majority_results, stage2_majority_results, stage2_input,
                    label_to_model, judges, judge_responses, stage2_results, stage3_args,
                    sse, chairman_response >>

\* stage2_collect_rankings up to its query_models_parallel(judges, messages).
Stage2Dispatch ==
    /\ pc = "s1_done"
    /\ mode \in {"full", "batch"}
    /\ mode = "full" => stage1_results # <<>>
    /\ LET js == Judges(models, SuccessfulModels(stage1_results, {MIGHT_RETRY})) IN
       /\ judges' = js
       /\ calls' = Append(calls, [stage |-> 2, models |-> js, timeout |-> DEFAULT_TIMEOUT])
       /\ pending' = Range(js)
       /\ judge_responses' = [ m \in Range(js) |-> None ]
    /\ stage2_input' = stage1_results
    /\ label_to_model' = LabelToModel(stage1_results)
    /\ sse' = IF mode = "batch" THEN Append(sse, "stage2_start") ELSE sse
    /\ pc' = "s2_gather"
    /\ UNCHANGED << function_vars, stream_vars, mode, models, responses, retry_timeout, retry_responses, stage1_results,
                    results, completed_count, majority_yielded, events,
                    stage1_majority_results, stage2_majority_results, stage2_results,
                    stage3_args, stage3_result, chairman_response >>

\* One judge call settles inside asyncio.gather.
SettleJudge(m, r) ==
    /\ pc = "s2_gather"
    /\ m \in pending
    /\ pending' = pending \ {m}
    /\ judge_responses' = [judge_responses EXCEPT ![m] = r]
    /\ UNCHANGED << function_vars, stream_vars, mode, models, pc, calls, responses, retry_timeout, retry_responses,
                    stage1_results, results, completed_count, majority_yielded, events,
                    stage1_majority_results, stage2_majority_results, stage2_input,
                    label_to_model, judges, stage2_results, stage3_args, stage3_result,
                    sse, chairman_response >>

\* The judge gather returned: format and return.
Stage2Return ==
    /\ pc = "s2_gather"
    /\ pending = {}
    /\ stage2_results' = FormatStage2Results(judges, judge_responses)
    /\ sse' = IF mode = "batch" THEN Append(sse, "stage2_complete") ELSE sse
    /\ pc' = "s2_done"
    /\ UNCHANGED << function_vars, stream_vars, mode, models, calls, pending, responses, retry_timeout, retry_responses,
                    stage1_results, results, completed_count, majority_yielded, events,
                    stage1_majority_results, stage2_majority_results, stage2_input,
                    label_to_model, judges, judge_responses, stage3_args, stage3_result, chairman_response >>

\* Variant of Stage2StreamStart: stage2_start is sent without looking at the majority
\* snapshot, so a run whose stage 1 reached its majority announces stage 2 twice.
Stage2StreamStartAnnouncing ==
    /\ pc = "s1_done"
    /\ mode = "quorum"
    /\ LET input == IF Truthy(stage1_majority_results) THEN stage1_majority_results[1]
                    ELSE stage1_results
           js == Judges(models, SuccessfulModels(input, {NO_RESPONSE, MIGHT_RETRY}))
       IN
       /\ stage2_input' = input
       /\ label_to_model' = LabelToModel(input)
       /\ judges' = js
       /\ calls' = Append(calls, [stage |-> 2, models |-> js, timeout |-> DEFAULT_TIMEOUT])
       /\ pending' = Range(js)
    /\ sse' = Append(sse, "stage2_start")
    /\ results' = <<>>
    /\ completed_count' = 0
    /\ majority_yielded' = FALSE
    /\ pc' = "s2_stream"
    /\ UNCHANGED << function_vars, stream_vars, mode, models, responses, retry_timeout, retry_responses, stage1_results,
                    events, stage1_majority_results, stage2_majority_results,
                    judge_responses, stage2_results, stage3_args, stage3_result, chairman_response >>

\* event_generator picks stage2_input; stage2_collect_rankings_streaming creates the
\* judge tasks.
Stage2StreamStart ==
    /\ pc = "s1_done"
    /\ mode = "quorum"
    /\ LET input == IF Truthy(stage1_majority_results) THEN stage1_majority_results[1]
                    ELSE stage1_results
           js == Judges(models, SuccessfulModels(input, {NO_RESPONSE, MIGHT_RETRY}))
       IN
       /\ stage2_input' = input
       /\ label_to_model' = LabelToModel(input)
       /\ judges' = js
       /\ calls' = Append(calls, [stage |-> 2, models |-> js, timeout |-> DEFAULT_TIMEOUT])
       /\ pending' = Range(js)
    /\ sse' = IF ~Truthy(stage1_majority_results) THEN Append(sse, "stage2_start") ELSE sse
    /\ results' = <<>>
    /\ completed_count' = 0
    /\ majority_yielded' = FALSE
    /\ pc' = "s2_stream"
    /\ UNCHANGED << function_vars, stream_vars, mode, models, responses, retry_timeout, retry_responses, stage1_results,
                    events, stage1_majority_results, stage2_majority_results,
                    judge_responses, stage2_results, stage3_args, stage3_result, chairman_response >>

\* One judge task settles and is handled.
Stage2StreamStep(m, r) ==
    /\ pc = "s2_stream"
    /\ m \in pending
    /\ pending' = pending \ {m}
    /\ completed_count' = completed_count + 1
    /\ LET total_judges == Len(judges)
           majority_threshold == MajorityThreshold(total_judges)
       IN
       IF r # None
       THEN LET result == RankingRecord(m, r[1])
                new_results == StoreResult(results, m, result)
                complete == [type |-> "model_complete", model |-> m, response |-> result,
                             completed |-> Cardinality(DOMAIN new_results),
                             total |-> total_judges]
            IN  /\ results' = new_results
                /\ IF MajorityDue(TRUE, majority_yielded, Cardinality(DOMAIN new_results),
                                  majority_threshold)
                   THEN LET ordered_results == OrderedResults(judges, new_results) IN
                        /\ majority_yielded' = TRUE
                        /\ events' = [events EXCEPT ![2] = @ \o
                               << complete,
                                  [type |-> "majority_reached", results |-> ordered_results,
                                   label_to_model |-> label_to_model,
                                   completed |-> Cardinality(DOMAIN new_results),
                                   total |-> total_judges] >>]
                        /\ stage2_majority_results' = Some(ordered_results)
                        /\ sse' = sse \o << "stage2_model_complete", "stage2_majority",
                                            "stage3_start" >>
                   ELSE /\ events' = [events EXCEPT ![2] = Append(@, complete)]
                        /\ sse' = Append(sse, "stage2_model_complete")
                        /\ UNCHANGED << majority_yielded, stage2_majority_results >>
       ELSE /\ events' = [events EXCEPT ![2] = Append(@,
                   [type |-> "model_failed", model |-> m,
                    completed |-> completed_count + 1, total |-> total_judges])]
            /\ sse' = Append(sse, "stage2_model_failed")
            /\ UNCHANGED << results, majority_yielded, stage2_majority_results >>
    /\ UNCHANGED << function_vars, stream_vars, mode, models, pc, calls, responses, retry_timeout, retry_responses,
                    stage1_results, stage1_majority_results, stage2_input, label_to_model,
                    judges, judge_responses, stage2_results, stage3_args, stage3_result, chairman_response >>

\* Mutant of Stage2StreamComplete: the stage completes only once some ranking came in.
Stage2StreamCompleteIfRanked ==
    /\ pc = "s2_stream"
    /\ pending = {}
    /\ results # <<>>
    /\ LET final == OrderedResults(judges, results) IN
       /\ stage2_results' = final
       /\ events' = [events EXCEPT ![2] =
              Append(@, [type |-> "stage_complete", results |-> final,
                         label_to_model |-> label_to_model])]
    /\ sse' = Append(sse, "stage2_complete")
    /\ pc' = "s2_done"
    /\ UNCHANGED << function_vars, stream_vars, mode, models, calls, pending, responses, retry_timeout, retry_responses,
                    stage1_results, results, completed_count, majority_yielded,
                    stage1_majority_results, stage2_majority_results, stage2_input,
                    label_to_model, judges, judge_responses, stage3_args, stage3_result, chairman_response >>

\* No judge task is pending: yield stage_complete with the successful rankings.
Stage2StreamComplete ==
    /\ pc = "s2_stream"
    /\ pending = {}
    /\ LET final == OrderedResults(judges, results) IN
       /\ stage2_results' = final
       /\ events' = [events EXCEPT ![2] =
              Append(@, [type |-> "stage_complete", results |-> final,
                         label_to_model |-> label_to_model])]
    /\ sse' = Append(sse, "stage2_complete")
    /\ pc' = "s2_done"
    /\ UNCHANGED << function_vars, stream_vars, mode, models, calls, pending, responses, retry_timeout, retry_responses,
                    stage1_results, results, completed_count, majority_yielded,
                    stage1_majority_results, stage2_majority_results, stage2_input,
                    label_to_model, judges, judge_responses, stage3_args, stage3_result, chairman_response >>

\* ---------------------------------------------------------------- stage 3

\* Variant: the chairman is consulted only when some ranking was collected.
Stage3DispatchIfRanked ==
    /\ pc = "s2_done"
    /\ stage2_results # <<>>
    /\ stage3_args' = Some([stage1_results |-> stage2_input, stage2_results |-> stage2_results])
    /\ calls' = Append(calls, [stage |-> 3, models |-> << "chairman" >>,
                               timeout |-> DEFAULT_TIMEOUT])
    /\ pc' = "s3"
    /\ UNCHANGED << function_vars, stream_vars, mode, models, pending, responses, retry_timeout, retry_responses,
                    stage1_results, results, completed_count, majority_yielded, events,
                    stage1_majority_results, stage2_majority_results, stage2_input,
                    label_to_model, judges, judge_responses, stage2_results,
                    stage3_result, chairman_response, sse >>

\* stage3_synthesize_final up to its query_model(chairman_model, messages).
Stage3Dispatch ==
    /\ pc = "s2_done"
    /\ LET s2 == IF mode = "quorum" /\ Truthy(stage2_majority_results)
                 THEN stage2_majority_results[1] ELSE stage2_results
       IN  stage3_args' = Some([stage1_results |-> stage2_input, stage2_results |-> s2])
    /\ calls' = Append(calls, [stage |-> 3, models |-> << "chairman" >>,
                               timeout |-> DEFAULT_TIMEOUT])
    /\ sse' = IF mode = "batch" \/ (mode = "quorum" /\ ~Truthy(stage2_majority_results))
              THEN Append(sse, "stage3_start") ELSE sse
    /\ pc' = "s3"
    /\ UNCHANGED << function_vars, stream_vars, mode, models, pending, responses, retry_timeout, retry_responses,
                    stage1_results, results, completed_count, majority_yielded, events,
                    stage1_majority_results, stage2_majority_results, stage2_input,
                    label_to_model, judges, judge_responses, stage2_results,
                    stage3_result, chairman_response >>

\* Variant: a failed chairman call leaves an empty synthesis instead of the fallback.
Stage3ResultNoFallback(r) ==
    IF r = None
    THEN [model |-> "chairman", response |-> ""]
    ELSE [model |-> "chairman", response |-> r[1].content,
          elapsed_time |-> r[1].elapsed_time, cost |-> r[1].cost]

\* The result dict of stage3_synthesize_final for the chairman's response.
Stage3Result(r) ==
    IF r = None
    THEN [model |-> "chairman", response |-> CHAIRMAN_FALLBACK]
    ELSE [model |-> "chairman", response |-> r[1].content,
          elapsed_time |-> r[1].elapsed_time, cost |-> r[1].cost]

\* The chairman call settles.
SettleChairman(r) ==
    /\ pc = "s3"
    /\ chairman_response' = r
    /\ stage3_result' = Some(Stage3Result(r))
    /\ sse' = IF mode # "full" THEN Append(sse, "stage3_complete") ELSE sse
    /\ pc' = "done"
    /\ UNCHANGED << function_vars, stream_vars, mode, models, calls, pending, responses, retry_timeout, retry_responses,
                    stage1_results, results, completed_count, majority_yielded, events,
                    stage1_majority_results, stage2_majority_results, stage2_input,
                    label_to_model, judges, judge_responses, stage2_results, stage3_args >>

\* ---------------------------------------------------------------- specification

\* Every pipeline variable before the first stage, for any entry point.
PipelineStart ==
    /\ \E n \in 0..MaxModels : models = [ i \in 1..n |-> i ]
    /\ pc = "start"
    /\ calls = <<>>
    /\ pending = {}
    /\ responses = <<>>
    /\ retry_timeout = None
    /\ retry_responses = <<>>
    /\ stage1_results = <<>>
    /\ results = <<>>
    /\ completed_count = 0
    /\ majority_yielded = FALSE
    /\ events = [ k \in {1, 2} |-> <<>> ]
    /\ stage1_majority_results = None
    /\ stage2_majority_results = None
    /\ stage2_input = <<>>
    /\ label_to_model = <<>>
    /\ judges = <<>>
    /\ judge_responses = <<>>
    /\ stage2_results = <<>>
    /\ stage3_args = None
    /\ stage3_result = None
    /\ chairman_response = None
    /\ sse = <<>>
    /\ ranking_text = None
    /\ parsed_ranking = None
    /\ aggregate = None

Init ==
    /\ mode \in Modes
    /\ PipelineStart
    /\ StreamIdle

Next ==
    \/ Stage1Dispatch
    \/ \E m \in Range(models) : \E r \in Outcomes(Stage1Responses) : SettleFirst(m, r)
    \/ Stage1FirstRoundDone
    \/ \E m \in Range(models) : \E r \in Outcomes(Stage1Responses) : SettleRetry(m, r)
    \/ Stage1RetryDone
    \/ Stage1StreamStart
    \/ \E m \in Range(models) : \E r \in Outcomes(Stage1Responses) : Stage1StreamStep(m, r)
    \/ Stage1StreamComplete
    \/ RunFullFailed
    \/ Stage2Dispatch
    \/ \E m \in Range(models) : \E r \in Outcomes(Stage2Responses) : SettleJudge(m, r)
    \/ Stage2Return
    \/ Stage2StreamStart
    \/ \E m \in Range(models) : \E r \in Outcomes(Stage2Responses) : Stage2StreamStep(m, r)
    \/ Stage2StreamComplete
    \/ Stage3Dispatch
    \/ \E r \in Outcomes(Stage3Responses) : SettleChairman(r)

Spec == Init /\ [][Next]_vars

\* ---------------------------------------------------------------- properties

\* Stage 1 has produced its final output.
Stage1Final == pc \in {"s1_done", "s2_gather", "s2_stream", "s2_done", "s3", "done", "failed"}

BatchModes == {"full", "batch"}

\* Indices of the records of a stage-1 list that are no placeholder.
NonPlaceholder(s1) ==
    { k \in DOMAIN s1 : s1[k].response \notin {NO_RESPONSE, MIGHT_RETRY} }

CallsOfStage(k) == SelectSeq(calls, LAMBDA c : c.stage = k)

\* ceil(n / 2), stated without the code's arithmetic.
CeilHalf(n) == CHOOSE c \in 0..n : 2 * c >= n /\ 2 * (c - 1) < n

EventIdx(ev, type) == { i \in DOMAIN ev : ev[i].type = type }

\* Workers with a model_complete event among the first i events.
SuccessesUpTo(ev, i) == { ev[j].model : j \in { x \in 1..i : ev[x].type = "model_complete" } }

\* Records of the model_complete events among the first i events.
RecordsUpTo(ev, i) == { ev[j].response : j \in { x \in 1..i : ev[x].type = "model_complete" } }

\* The records are listed in strictly increasing candidate position.
InCandidateOrder(ms, recs) ==
    \A a, b \in DOMAIN recs :
        a < b => Position(ms, recs[a].model) < Position(ms, recs[b].model)

\* The candidate list of streaming stage k.
StageCandidates(k) == IF k = 1 THEN models ELSE judges

\* C1: total stage-1 failure is fatal in every execution path: with N >= 1, when the
\* final stage-1 output holds zero non-placeholder records the run goes to FAILED with
\* the synthetic error result and issues no stage-2 and no chairman call, and FAILED is
\* entered only then.
C1_TotalFailureIsFatal ==
    (Stage1Final /\ Len(models) >= 1) =>
        /\ pc = "failed" => NonPlaceholder(stage1_results) = {}
        /\ NonPlaceholder(stage1_results) = {} =>
              /\ pc \in {"s1_done", "failed"}
              /\ \A k \in DOMAIN CallsOfStage(2) : CallsOfStage(2)[k].models = <<>>
              /\ CallsOfStage(3) = <<>>
              /\ pc = "failed" =>
                    stage3_result = Some([model |-> "error", response |-> ALL_FAILED])

\* C2: in quorum mode the majority snapshot is handed over immediately: once stage 1
\* has emitted majority_reached the stage-2 judge calls are dispatched even while
\* stage-1 calls are still pending, and once stage 2 has emitted majority_reached the
\* chairman call is dispatched even while judge calls are still pending.
C2_QuorumHandsOverAtMajority ==
    mode = "quorum" =>
        /\ (pc = "s1_stream" /\ Truthy(stage1_majority_results) /\ pending # {})
              => CallsOfStage(2) # <<>>
        /\ (pc = "s2_stream" /\ Truthy(stage2_majority_results) /\ pending # {})
              => CallsOfStage(3) # <<>>

\* C3 for the events ev of one streaming stage with `total` candidates.
MajorityExactlyAtThreshold(ev, total) ==
    /\ Cardinality(EventIdx(ev, "majority_reached")) <= 1
    /\ \A i \in EventIdx(ev, "majority_reached") :
          /\ i > 1
          /\ ev[i - 1].type = "model_complete"
          /\ Cardinality(SuccessesUpTo(ev, i - 1)) = CeilHalf(total)
          /\ Cardinality(SuccessesUpTo(ev, i - 2)) < CeilHalf(total)
    /\ \A i \in EventIdx(ev, "model_complete") :
          (/\ Cardinality(SuccessesUpTo(ev, i)) = CeilHalf(total)
           /\ Cardinality(SuccessesUpTo(ev, i - 1)) < CeilHalf(total))
          => (i + 1 \in DOMAIN ev /\ ev[i + 1].type = "majority_reached")
    /\ total = 0 => EventIdx(ev, "majority_reached") = {}
    /\ Cardinality(SuccessesUpTo(ev, Len(ev))) < CeilHalf(total)
          => EventIdx(ev, "majority_reached") = {}

\* C3: in a streaming stage majority_reached is emitted at most once, right after the
\* model_complete of the success that first brings the number of distinct successes to
\* ceil(N/2), never after a failure, never when N = 0 and never with fewer successes.
C3_MajorityOnceAtThreshold ==
    \A k \in {1, 2} : MajorityExactlyAtThreshold(events[k], Len(StageCandidates(k)))

\* C3 witness: with three candidates stage 1 emitted majority_reached after a failure
\* and two successes.
C3_Witness ==
    /\ Len(models) = 3
    /\ \E i \in EventIdx(events[1], "majority_reached") :
          \E j \in 1..i : events[1][j].type = "model_failed"

\* C4: the results of majority_reached are exactly the records of the candidates that
\* have succeeded so far, in original candidate order whatever the completion order;
\* the stage_complete snapshot is in candidate order too.
C4_SnapshotsInCandidateOrder ==
    \A k \in {1, 2} :
        /\ \A i \in EventIdx(events[k], "majority_reached") :
              /\ Range(events[k][i].results) = RecordsUpTo(events[k], i)
              /\ InCandidateOrder(StageCandidates(k), events[k][i].results)
        /\ \A i \in EventIdx(events[k], "stage_complete") :
              /\ RecordsUpTo(events[k], i) \subseteq Range(events[k][i].results)
              /\ InCandidateOrder(StageCandidates(k), events[k][i].results)

\* C4 witness: a stage-1 majority snapshot of two records whose calls completed in the
\* opposite of candidate order.
C4_Witness ==
    \E i \in EventIdx(events[1], "majority_reached") :
        /\ Len(events[1][i].results) = 2
        /\ \E a, b \in 1..i :
              /\ a < b
              /\ events[1][a].type = "model_complete"
              /\ events[1][b].type = "model_complete"
              /\ Position(models, events[1][a].model) > Position(models, events[1][b].model)

\* C5: streaming stage 1 emits exactly one stage_complete, as its last event and after
\* all N calls settled; its results hold N records in candidate order, one per
\* candidate: the candidate's record if it succeeded, else the placeholder
\* "No response." with elapsed_time, usage and cost null.
C5_StageCompleteSnapshot ==
    LET ev == events[1]
        done == EventIdx(ev, "stage_complete")
        settled(i) == { ev[j].model :
                          j \in { x \in 1..i : ev[x].type \in {"model_complete", "model_failed"} } }
    IN  /\ Cardinality(done) <= 1
        /\ (mode = "quorum" /\ Stage1Final) => Cardinality(done) = 1
        /\ \A i \in done :
              /\ i = Len(ev)
              /\ settled(i) = Range(models)
              /\ Cardinality(EventIdx(ev, "model_complete") \cup EventIdx(ev, "model_failed"))
                    = Len(models)
              /\ Len(ev[i].results) = Len(models)
              /\ \A k \in DOMAIN models :
                    LET rec == ev[i].results[k]
                        own == { j \in EventIdx(ev, "model_complete") : ev[j].model = models[k] }
                    IN  /\ rec.model = models[k]
                        /\ own # {} => \A j \in own : rec = ev[j].response
                        /\ own = {} =>
                              rec = [model |-> models[k], response |-> "No response.",
                                     elapsed_time |-> None, usage |-> None, cost |-> None]

\* C5 witness: a stage_complete of three candidates with a real record and a
\* placeholder.
C5_Witness ==
    /\ Len(models) = 3
    /\ \E i \in EventIdx(events[1], "stage_complete") :
          /\ \E k \in 1..3 : events[1][i].results[k].response = "No response."
          /\ \E k \in 1..3 : events[1][i].results[k].response = "answer"

\* The records of worker m in a stage-1 list.
RecordsOf(s1, m) == SelectSeq(s1, LAMBDA rec : rec.model = m)

BatchStage1Done == mode \in BatchModes /\ Stage1Final

\* C6: in batch stage 1 the records of each candidate are [success] if its first
\* attempt succeeded, [placeholder "No response. Might retry." with null metadata,
\* retried success marked as second attempt] if the first attempt failed and the retry
\* succeeded, and [placeholder] alone if both attempts failed.
C6_PerCandidateRecords ==
    BatchStage1Done =>
        \A m \in Range(models) :
            LET recs == RecordsOf(stage1_results, m)
                first == responses[m]
                second == Get(retry_responses, m)
                placeholder == [model |-> m, response |-> "No response. Might retry.",
                                elapsed_time |-> None, usage |-> None, cost |-> None]
            IN  /\ first # None =>
                      recs = << [model |-> m, response |-> first[1].content,
                                 elapsed_time |-> first[1].elapsed_time,
                                 usage |-> first[1].usage, cost |-> first[1].cost] >>
                /\ (first = None /\ second # None) =>
                      /\ Len(recs) = 2
                      /\ recs[1] = placeholder
                      /\ recs[2] = [model |-> m,
                                    response |-> SECOND_ATTEMPT_PREFIX \o second[1].content,
                                    elapsed_time |-> second[1].elapsed_time,
                                    usage |-> second[1].usage, cost |-> second[1].cost]
                /\ (first = None /\ second = None) => recs = << placeholder >>

\* C6 witness: a batch output where one candidate has the placeholder followed by its
\* second-attempt record and another candidate has the placeholder alone.
C6_Witness ==
    /\ BatchStage1Done
    /\ \E m \in Range(models) : Len(RecordsOf(stage1_results, m)) = 2
    /\ \E m \in Range(models) :
          /\ Len(RecordsOf(stage1_results, m)) = 1
          /\ RecordsOf(stage1_results, m)[1].response = MIGHT_RETRY

\* C7: batch stage-1 results are in original candidate order: every record of a
\* candidate precedes every record of any later candidate.
C7_BatchCandidateOrder ==
    BatchStage1Done =>
        \A a, b \in DOMAIN stage1_results :
            Position(models, stage1_results[a].model) < Position(models, stage1_results[b].model)
                => a < b

\* C7 witness: the first candidate was retried successfully (two records) and a later
\* candidate's record follows them.
C7_Witness ==
    /\ BatchStage1Done
    /\ Len(stage1_results) >= 3
    /\ stage1_results[1].model = models[1]
    /\ stage1_results[2].model = models[1]
    /\ stage1_results[3].model = models[2]

\* C8: the batch stage-1 output length is within [0, 2N], and is 2N only if every
\* candidate failed its first attempt and succeeded on retry.
C8_BatchLengthBound ==
    BatchStage1Done =>
        /\ Len(stage1_results) >= 0
        /\ Len(stage1_results) <= 2 * Len(models)
        /\ Len(stage1_results) = 2 * Len(models) =>
              \A m \in Range(models) :
                  responses[m] = None /\ Get(retry_responses, m) # None

\* C8 witness: at least two candidates and an output of length 2N.
C8_Witness ==
    /\ BatchStage1Done
    /\ Len(models) >= 2
    /\ Len(stage1_results) = 2 * Len(models)

\* Number of stage-1 rounds in which worker m was invoked.
Invocations(m) ==
    Cardinality({ k \in DOMAIN CallsOfStage(1) : m \in Range(CallsOfStage(1)[k].models) })

\* C9: batch stage 1 issues at most one retry round: none if no first attempt failed,
\* else exactly one, holding exactly the candidates whose first attempt failed; every
\* candidate is invoked at most twice and a first-attempt success exactly once.
C9_SingleRetryRound ==
    mode \in BatchModes =>
        LET rounds == CallsOfStage(1)
            firstDone == pc \notin {"start", "s1_gather"}
            failed == { m \in Range(models) : responses[m] = None }
        IN  /\ Len(rounds) <= 2
            /\ \A m \in Range(models) : Invocations(m) <= 2
            /\ firstDone =>
                  /\ rounds[1].models = models
                  /\ failed = {} => Len(rounds) = 1
                  /\ failed # {} =>
                        /\ Len(rounds) = 2
                        /\ Range(rounds[2].models) = failed
                        /\ Len(rounds[2].models) = Cardinality(failed)
                  /\ \A m \in Range(models) : responses[m] # None => Invocations(m) = 1

\* C9 witness: a finished batch run in which some but not all candidates were retried
\* and a retried candidate failed again.
C9_Witness ==
    /\ mode \in BatchModes
    /\ pc = "done"
    /\ Len(CallsOfStage(1)) = 2
    /\ Len(CallsOfStage(1)[2].models) < Len(models)
    /\ \E m \in Range(CallsOfStage(1)[2].models) : retry_responses[m] = None

\* C10: the timeout of the retry round is max(10, M), M the largest elapsed time of the
\* first-attempt successes, or 120 when there are none: [5, 30] give 30, no success
\* gives 120, successes all below 10 give 10.
C10_RetryTimeoutValue ==
    (mode \in BatchModes /\ Len(CallsOfStage(1)) = 2) =>
        LET used == CallsOfStage(1)[2].timeout
            elapsed == { responses[m][1].elapsed_time[1] :
                           m \in { x \in Range(models) : responses[x] # None } }
        IN  /\ retry_timeout = Some(used)
            /\ elapsed = {} => used = 120
            /\ elapsed # {} =>
                  \E M \in elapsed :
                      /\ \A e \in elapsed : e <= M
                      /\ used = IF M > 10 THEN M ELSE 10
            /\ elapsed = {5, 30} => used = 30
            /\ (elapsed # {} /\ \A e \in elapsed : e < 10) => used = 10

\* C10 witness: a retry round issued after first-attempt successes that were all faster
\* than 10 s.
C10_Witness ==
    /\ mode \in BatchModes
    /\ Len(CallsOfStage(1)) = 2
    /\ \E m \in Range(models) : responses[m] # None
    /\ \A m \in Range(models) : responses[m] # None => responses[m][1].elapsed_time[1] < 10
    /\ CallsOfStage(1)[2].timeout = 10


\* The entries of the map f other than m's are kept by the step.
OthersKept(f, g, m) == \A x \in DOMAIN f : x # m => (x \in DOMAIN g /\ g[x] = f[x])

\* A step settles at most one call, leaves every other call in flight and keeps every
\* other worker's recorded response.
SettlesOneCallOnly ==
    /\ Cardinality(pending \ pending') <= 1
    /\ pending # {} => pending' \subseteq pending
    /\ \A m \in pending \ pending' :
          /\ pc = "s1_gather" => OthersKept(responses, responses', m)
          /\ pc = "s1_retry" => OthersKept(retry_responses, retry_responses', m)
          /\ pc = "s2_gather" => OthersKept(judge_responses, judge_responses', m)
          /\ pc \in {"s1_stream", "s2_stream"} => OthersKept(results, results', m)
          /\ pc' = pc

\* Every candidate's call is issued, and every success is in the stage-1 output.
SuccessesRecorded ==
    /\ CallsOfStage(1) # <<>> => CallsOfStage(1)[1].models = models
    /\ BatchStage1Done =>
          \A m \in Range(models) :
              LET got == IF responses[m] # None THEN responses[m] ELSE Get(retry_responses, m)
              IN  got # None =>
                      \E k \in NonPlaceholder(stage1_results) :
                          /\ stage1_results[k].model = m
                          /\ stage1_results[k].elapsed_time = got[1].elapsed_time
    /\ (mode = "quorum" /\ Stage1Final) =>
          \A i \in EventIdx(events[1], "model_complete") :
              \E k \in NonPlaceholder(stage1_results) :
                  stage1_results[k] = events[1][i].response

CompletionIdx(ev) == EventIdx(ev, "model_complete") \cup EventIdx(ev, "model_failed")

\* Number of completion events among the first i events.
CompletionsUpTo(ev, i) == Cardinality({ j \in CompletionIdx(ev) : j <= i })

\* C12 for streaming stage k.
NoStreamingRetry(k) ==
    LET ev == events[k]
        cands == StageCandidates(k)
        rounds == CallsOfStage(k)
    IN  /\ Len(rounds) <= 1
        /\ rounds # <<>> =>
              /\ rounds[1].models = cands
              /\ \A a, b \in DOMAIN cands : a # b => cands[a] # cands[b]
        /\ \A i, j \in CompletionIdx(ev) : ev[i].model = ev[j].model => i = j
        /\ \A i \in CompletionIdx(ev) : ev[i].model \in Range(cands)
        /\ \A i \in EventIdx(ev, "model_failed") :
              /\ ev[i].completed = CompletionsUpTo(ev, i)
              /\ \A j \in EventIdx(ev, "stage_complete") :
                    \A n \in DOMAIN ev[j].results :
                        ev[j].results[n].model = ev[i].model
                            => ev[j].results[n].response = NO_RESPONSE
        /\ k = 1 => \A i \in EventIdx(ev, "model_complete") :
                        ev[i].completed = CompletionsUpTo(ev, i)
        /\ \A j \in EventIdx(ev, "stage_complete") :
              /\ CompletionsUpTo(ev, j) = Len(cands)
              /\ { ev[i].model : i \in CompletionIdx(ev) } = Range(cands)

\* C12: streaming collection never retries: per stage every candidate is invoked once
\* and has exactly one completion event (model_complete for a success, model_failed
\* otherwise), numbered in the order the calls settle, so that exactly N completion
\* events precede stage_complete.
C12_StreamingNeverRetries ==
    mode = "quorum" => \A k \in {1, 2} : NoStreamingRetry(k)

\* C12 witness: a streaming stage 1 of three candidates completed after a failure,
\* and its stage 2 completed after a judge failure.
C12_Witness ==
    /\ Len(models) = 3
    /\ EventIdx(events[1], "model_failed") # {}
    /\ EventIdx(events[1], "stage_complete") # {}
    /\ EventIdx(events[2], "model_failed") # {}
    /\ EventIdx(events[2], "stage_complete") # {}

\* Workers with a completion event among the first i events.
SettledUpTo(ev, i) == { ev[j].model : j \in { x \in CompletionIdx(ev) : x <= i } }

\* The pc value at which streaming stage k has calls in flight.
StreamPc(k) == IF k = 1 THEN "s1_stream" ELSE "s2_stream"

\* C13 for streaming stage k.
LaggardsKept(k) ==
    LET ev == events[k]
        cands == Range(StageCandidates(k))
    IN  \A i \in EventIdx(ev, "majority_reached") :
            LET laggards == cands \ SettledUpTo(ev, i) IN
            /\ (pc = StreamPc(k) /\ EventIdx(ev, "stage_complete") = {}) =>
                  laggards \ SettledUpTo(ev, Len(ev)) = pending
            /\ \A j \in EventIdx(ev, "stage_complete") :
                  /\ i < j
                  /\ laggards \subseteq SettledUpTo(ev, j)
                  /\ \A c \in EventIdx(ev, "model_complete") :
                        (i < c /\ c < j) =>
                            \E n \in DOMAIN ev[j].results :
                                /\ ev[j].results[n] = ev[c].response
                                /\ ev[j].results[n].model = ev[c].model
                                /\ k = 1 => ev[j].results[n].response # NO_RESPONSE

\* C13: quorum acceleration cancels nothing: every call still pending when
\* majority_reached is emitted stays in flight until it settles, and every such call
\* that succeeds is a real record of that stage's stage_complete results.
C13_NoCancellationAtMajority == \A k \in {1, 2} : LaggardsKept(k)

\* C13 witness: stage 1 of three candidates completed with a success that settled
\* after majority_reached.
C13_Witness ==
    /\ Len(models) = 3
    /\ \E i \in EventIdx(events[1], "majority_reached") :
          \E j \in EventIdx(events[1], "stage_complete") :
              \E c \in EventIdx(events[1], "model_complete") : i < c /\ c < j

\* C14 for streaming stage k while it runs: the map holds exactly the records of the
\* model_complete events so far, each under its own worker.
MapIsEventHistory(k) ==
    pc = StreamPc(k) =>
        /\ DOMAIN results = SuccessesUpTo(events[k], Len(events[k]))
        /\ \A i \in EventIdx(events[k], "model_complete") :
              results[events[k][i].model] = events[k][i].response

\* C14: within a streaming stage the result map is written only when the coordinator
\* handles a settlement, once per settled call: after any interleaving it holds
\* exactly one entry per success handled so far, none lost and none overwritten.
C14_SingleWriterMap == \A k \in {1, 2} : MapIsEventHistory(k)

\* C14 witness: three successes handled in a streaming stage 1, the last candidate
\* first.
C14_Witness ==
    /\ pc = "s1_stream"
    /\ Len(models) = 3
    /\ Cardinality(DOMAIN results) = 3
    /\ events[1][1].model = models[3]

\* Workers with at least one non-placeholder record in the stage-1 list s1.
RealRecordWorkers(s1) ==
    { s1[k].model : k \in NonPlaceholder(s1) }

\* The stage-1 list handed to stage 2: the whole stage-1 output, except in quorum mode
\* once a majority snapshot exists, where it is that snapshot.
HandedToStage2 ==
    IF mode = "quorum" /\ stage1_majority_results # None
    THEN stage1_majority_results[1]
    ELSE stage1_results

\* C15 as stated: once the judge round is issued, the judges are exactly the workers
\* with a non-placeholder record in the stage-1 output.
C15_JudgesAreStage1Successes ==
    CallsOfStage(2) # <<>> =>
        /\ Range(CallsOfStage(2)[1].models) = RealRecordWorkers(stage1_results)
        /\ Range(CallsOfStage(2)[1].models) \subseteq Range(models)

\* C15 amended: the judges are exactly the active candidates with a non-placeholder
\* record in the stage-1 list handed to stage 2 (in quorum mode the majority
\* snapshot when one was reached, otherwise the full stage-1 output); a worker that
\* succeeded only on retry is a judge, a worker with only placeholders never is.
C15_JudgesAreHandedSuccesses ==
    CallsOfStage(2) # <<>> =>
        /\ Len(CallsOfStage(2)) = 1
        /\ CallsOfStage(2)[1].models = judges
        /\ Range(judges) = RealRecordWorkers(HandedToStage2)
        /\ Range(judges) \subseteq Range(models)
        /\ \A a, b \in DOMAIN judges :
              a < b => Position(models, judges[a]) < Position(models, judges[b])
        /\ mode \in BatchModes =>
              \A m \in Range(models) :
                  /\ (m \in DOMAIN retry_responses /\ retry_responses[m] # None) =>
                        m \in Range(judges)
                  /\ m \notin RealRecordWorkers(stage1_results) => m \notin Range(judges)

\* C15 witness: a quorum run whose judge round left out a worker that has a real
\* record in the final stage-1 output, because it settled after the majority.
C15_Witness ==
    /\ mode = "quorum"
    /\ CallsOfStage(2) # <<>>
    /\ Len(models) = 3
    /\ Range(judges) # RealRecordWorkers(stage1_results)
    /\ Range(judges) = RealRecordWorkers(HandedToStage2)

\* C15 witness of the batch case: a retried success judges, a double failure does not.
C15_RetriedJudgeReached ==
    /\ mode \in BatchModes
    /\ CallsOfStage(2) # <<>>
    /\ \E m \in Range(judges) : m \in DOMAIN retry_responses
    /\ \E m \in Range(models) : m \notin Range(judges)

\* The coordinator is collecting rankings: the judge round is issued, the chairman's
\* is not.
CollectingRankings == pc \in {"s2_gather", "s2_stream", "s2_done"}

C16_EmptyPoolReached ==
    /\ pc = "s3"
    /\ mode = "batch"
    /\ models # <<>>
    /\ judges = <<>>
    /\ Len(CallsOfStage(3)) = 1

\* C17: the chairman is invoked exactly once per run and never retried; a failed call
\* yields the fixed fallback message as the stage-3 result and the run still reaches
\* DONE, with stage3_complete emitted and no error.
C17_ChairmanOnceWithFallback ==
    /\ Len(CallsOfStage(3)) <= 1
    /\ \A k \in DOMAIN CallsOfStage(3) : CallsOfStage(3)[k].models = << "chairman" >>
    /\ pc = "s3" =>
          /\ Len(CallsOfStage(3)) = 1
          /\ ENABLED SettleChairman(None)
    /\ pc = "done" =>
          /\ Len(CallsOfStage(3)) = 1
          /\ stage3_result # None
          /\ chairman_response = None =>
                /\ stage3_result[1].response = "Error: Unable to generate final synthesis."
                /\ stage3_result[1].model = "chairman"
          /\ chairman_response # None =>
                stage3_result[1].response = chairman_response[1].content
          /\ mode # "full" => sse[Len(sse)] = "stage3_complete"
    /\ pc # "done" => chairman_response = None
    /\ pc \notin {"done", "failed"} => stage3_result = None

\* C17 witness: a streamed run is DONE after its chairman call failed.
C17_Witness ==
    /\ pc = "done"
    /\ mode = "quorum"
    /\ chairman_response = None
    /\ Len(CallsOfStage(3)) = 1
    /\ sse[Len(sse)] = "stage3_complete"

\* The pipeline stage of a coordinator position.
StageOf(p) ==
    CASE p \in {"start", "s1_gather", "s1_retry", "s1_stream", "s1_done"} -> "COLLECTING_RESPONSES"
      [] p \in {"s2_gather", "s2_stream", "s2_done"} -> "COLLECTING_RANKINGS"
      [] p = "s3" -> "SYNTHESIZING"
      [] p = "done" -> "DONE"
      [] p = "failed" -> "FAILED"

\* The stage changes the pipeline allows.
StageEdges ==
    { << "COLLECTING_RESPONSES", "COLLECTING_RANKINGS" >>,
      << "COLLECTING_RANKINGS", "SYNTHESIZING" >>,
      << "SYNTHESIZING", "DONE" >>,
      << "COLLECTING_RESPONSES", "FAILED" >> }

\* A step keeps the stage or follows one allowed edge; the rounds issued only grow.
StageMovesForward ==
    /\ StageOf(pc') = StageOf(pc) \/ << StageOf(pc), StageOf(pc') >> \in StageEdges
    /\ Len(calls) <= Len(calls')
    /\ SubSeq(calls', 1, Len(calls)) = calls

\* The rounds issued so far are those of the stages entered so far.
StageMatchesCalls ==
    /\ StageOf(pc) \in {"COLLECTING_RESPONSES", "FAILED"} =>
          CallsOfStage(2) = <<>> /\ CallsOfStage(3) = <<>>
    /\ StageOf(pc) = "COLLECTING_RANKINGS" =>
          Len(CallsOfStage(2)) = 1 /\ CallsOfStage(3) = <<>>
    /\ StageOf(pc) \in {"SYNTHESIZING", "DONE"} =>
          Len(CallsOfStage(2)) = 1 /\ Len(CallsOfStage(3)) = 1
    /\ \A a, b \in DOMAIN calls : a < b => calls[a].stage <= calls[b].stage

\* C18: the stage only moves forward along COLLECTING_RESPONSES -> COLLECTING_RANKINGS
\* -> SYNTHESIZING -> DONE: none is skipped or re-entered, DONE is entered only from
\* SYNTHESIZING, and FAILED only from COLLECTING_RESPONSES, before any stage-2 or
\* stage-3 call is issued.
C18_StagesOnlyForward == []StageMatchesCalls /\ [][StageMovesForward]_vars

\* C18 witness: a batch-API run stopped in FAILED straight from stage 1.
C18_Witness ==
    /\ pc = "failed"
    /\ mode = "full"
    /\ CallsOfStage(1) # <<>>
    /\ CallsOfStage(2) = <<>>

\* C18 witness of the full path: DONE with one round of each later stage.
C18_DoneReached ==
    /\ pc = "done"
    /\ Len(models) = 3
    /\ Len(CallsOfStage(2)) = 1
    /\ Len(CallsOfStage(3)) = 1

\* The rounds a step adds to the call log.
IssuedBy(k) == { i \in (Len(calls) + 1)..Len(calls') : calls'[i].stage = k }

\* Every stage-1 call has settled: the first attempts, and the retry round that is
\* issued whenever a first attempt failed.
Stage1Resolved ==
    /\ pending = {}
    /\ CallsOfStage(1) # <<>>
    /\ DOMAIN responses = Range(models)
    /\ LET failed == { m \in Range(models) : responses[m] = None } IN
       /\ failed # {} => Len(CallsOfStage(1)) = 2
       /\ failed # {} => Range(CallsOfStage(1)[2].models) = failed
       /\ DOMAIN retry_responses = failed

\* Every stage-2 call has settled.
Stage2Resolved ==
    /\ pending = {}
    /\ Len(CallsOfStage(2)) = 1
    /\ DOMAIN judge_responses = Range(judges)

\* A batch step issues a round of the next stage only from a resolved stage.
IssuesAfterResolution ==
    mode \in BatchModes =>
        /\ IssuedBy(2) # {} => Stage1Resolved
        /\ IssuedBy(3) # {} => Stage2Resolved

\* In batch mode the calls in flight belong to the round issued last.
InFlightIsLastRound ==
    (mode \in BatchModes /\ pending # {}) =>
        /\ calls # <<>>
        /\ pending \subseteq Range(calls[Len(calls)].models)
        /\ pc \in {"s1_gather", "s1_retry", "s2_gather"}

\* C19: in batch mode each stage fully resolves before the next starts: no judge call
\* is issued before every stage-1 call, first attempts and retry round, has settled,
\* and the chairman call is not issued before every judge call has settled.
C19_BatchStagesResolve == []InFlightIsLastRound /\ [][IssuesAfterResolution]_vars

\* C19 witness: a batch run that retried in stage 1, asked two judges or more and
\* has issued the chairman call.
C19_Witness ==
    /\ mode = "batch"
    /\ Len(CallsOfStage(1)) = 2
    /\ Len(judges) >= 2
    /\ Len(CallsOfStage(3)) = 1

\* C20: the label map built from the stage-1 results is a bijection between labels
\* and workers: no two labels map to the same worker, in every run, batch runs with
\* a retried success included.
C20_LabelMapBijection ==
    \A a, b \in DOMAIN label_to_model :
        a # b => label_to_model[a] # label_to_model[b]

\* C20, second half: the map is built when the judge round is issued and never
\* modified afterwards.
C20_LabelMapBuiltOnce ==
    [][label_to_model' # label_to_model => IssuedBy(2) # {} /\ CallsOfStage(2) = <<>>]_vars

\* The run of C20's failing input: the only candidate failed first, succeeded on
\* retry, and both of its records got a label.
C20_RetriedWorkerLabelledTwice ==
    /\ mode = "batch"
    /\ models = << 1 >>
    /\ Len(stage1_results) = 2
    /\ stage1_results[1].response = MIGHT_RETRY
    /\ DOMAIN label_to_model = {1, 2}
    /\ label_to_model[1] = 1
    /\ label_to_model[2] = 1

FINAL_RANKING == "FINAL RANKING:"
LabelTokens == {"Response A", "Response B", "Response C"}
NumberTokens == {"1.", "2."}
SpaceTokens == {" ", "\n"}

\* Longest enumerated judge text, in tokens.
MaxTextLen == 5

\* The tokens of the enumerated judge texts.
Tokens == {FINAL_RANKING, "1.", " ", "Response A", "Response B", "text"}

\* The two example texts of the documentation of the extractor.
ExampleTexts ==
    { << "text", " ", FINAL_RANKING, "\n", "1.", " ", "Response B", "\n", "2.", " ", "Response A" >>,
      << "text", " ", "text" >> }

\* The judge texts parse_ranking_from_text is applied to.
RankingTexts ==
    ExampleTexts \cup UNION { [1..n -> Tokens] : n \in 0..MaxTextLen }

\* ranking_text.split("FINAL RANKING:"): the pieces between the occurrences.
RECURSIVE Split(_)
Split(text) ==
    IF \A i \in DOMAIN text : text[i] # FINAL_RANKING
    THEN << text >>
    ELSE LET i == CHOOSE x \in DOMAIN text :
                      text[x] = FINAL_RANKING /\ \A j \in 1..(x - 1) : text[j] # FINAL_RANKING
         IN  << SubSeq(text, 1, i - 1) >> \o Split(SubSeq(text, i + 1, Len(text)))

\* re.findall(r'Response [A-Z]', section)
FindLabels(section) == SelectSeq(section, LAMBDA t : t \in LabelTokens)

\* \s* from position j: the first position that is no white space.
RECURSIVE SkipSpaces(_, _)
SkipSpaces(section, j) ==
    IF j <= Len(section) /\ section[j] \in SpaceTokens
    THEN SkipSpaces(section, j + 1)
    ELSE j

\* Where a match of \d+\.\s*Response [A-Z] starting at position i ends; 0 if there
\* is no match at i.
NumberedMatchEnd(section, i) ==
    IF section[i] \in NumberTokens
    THEN LET j == SkipSpaces(section, i + 1)
         IN  IF j <= Len(section) /\ section[j] \in LabelTokens THEN j ELSE 0
    ELSE 0

\* re.findall(r'\d+\.\s*Response [A-Z]', section), scanning from position i: the
\* non-overlapping matches, left to right.
RECURSIVE FindNumbered(_, _)
FindNumbered(section, i) ==
    IF i > Len(section)
    THEN <<>>
    ELSE LET e == NumberedMatchEnd(section, i)
         IN  IF e # 0
             THEN << SubSeq(section, i, e) >> \o FindNumbered(section, e + 1)
             ELSE FindNumbered(section, i + 1)

\* ranking_section = parts[1] (the second piece; sequences count from 1).
RankingSection(text) == Split(text)[2]

\* Variant: bare label mentions are kept beside the numbered entries.
ExtractLabelsNumberedAndBare(section) == FindLabels(section)

\* The body of the marker branch: the labels of the numbered matches if there are
\* any, else all labels of the section.
ExtractLabels(section) ==
    LET numbered_matches == FindNumbered(section, 1)
    IN  IF numbered_matches # <<>>
        THEN [ k \in DOMAIN numbered_matches |-> FindLabels(numbered_matches[k])[1] ]
        ELSE FindLabels(section)

\* Variant: without a marker nothing is extracted.
FallbackLabelsNone(text) == <<>>

\* The final fallback: every label of the whole text.
FallbackLabels(text) == FindLabels(text)

\* Variant of ParseRankingFromText: a marker section without labels falls through to
\* the whole-text search.
ParseRankingFromTextFallingThrough(text) ==
    IF (\E i \in DOMAIN text : text[i] = FINAL_RANKING)
       /\ ExtractLabels(RankingSection(text)) # <<>>
    THEN ExtractLabels(RankingSection(text))
    ELSE FallbackLabels(text)

\* parse_ranking_from_text(ranking_text)
ParseRankingFromText(text) ==
    IF \E i \in DOMAIN text : text[i] = FINAL_RANKING
    THEN ExtractLabels(RankingSection(text))
    ELSE FallbackLabels(text)

\* Every pipeline variable at rest, for the specifications of the pure functions.
PipelineIdle ==
    /\ mode = "full"
    /\ models = <<>>
    /\ calls = <<>>
    /\ pending = {}
    /\ responses = <<>>
    /\ retry_timeout = None
    /\ retry_responses = <<>>
    /\ results = <<>>
    /\ completed_count = 0
    /\ majority_yielded = FALSE
    /\ events = [ k \in {1, 2} |-> <<>> ]
    /\ stage1_majority_results = None
    /\ stage2_majority_results = None
    /\ stage2_input = <<>>
    /\ judges = <<>>
    /\ judge_responses = <<>>
    /\ stage3_args = None
    /\ stage3_result = None
    /\ chairman_response = None
    /\ sse = <<>>
    /\ StreamIdle

\* The pipeline variables the pure functions neither read nor write.
idle_vars == << mode, models, calls, pending, responses, retry_timeout, retry_responses,
                results, completed_count, majority_yielded, events,
                stage1_majority_results, stage2_majority_results, stage2_input, judges,
                judge_responses, stage3_args, stage3_result, chairman_response, sse,
                title_task, title_response, title, saved >>

\* A call of parse_ranking_from_text on some judge text.
InitParse ==
    /\ PipelineIdle
    /\ stage1_results = <<>>
    /\ stage2_results = <<>>
    /\ label_to_model = <<>>
    /\ pc = "parse"
    /\ ranking_text \in { Some(t) : t \in RankingTexts }
    /\ parsed_ranking = None
    /\ aggregate = None

\* The call returns.
ParseReturn ==
    /\ pc = "parse"
    /\ parsed_ranking' = Some(ParseRankingFromText(ranking_text[1]))
    /\ pc' = "parsed"
    /\ UNCHANGED << idle_vars, stage1_results, stage2_results, label_to_model, ranking_text,
                    aggregate >>

NextParse == ParseReturn

SpecParse == InitParse /\ [][NextParse]_vars

\* ---------------------------------------------------------------- calculate_aggregate_rankings

\* Most judgments and most labels the aggregation is explored with.
MaxJudgments == 2
MaxLabels == 2

\* query_model rounds elapsed_time and cost to 2 decimals, so a time or a cost is a
\* whole number of hundredths: x stands for the float nearest to x / 100.  The float
\* sum of a few such values differs from their exact sum by far less than half a
\* hundredth, so round(sum, 2) is computed on the exact sum.  average_rank,
\* total_elapsed_time and total_cost are counted in hundredths too.
HundredthsPerUnit == 100

\* f"Response {chr(64 + k)}"
LabelNames == << "Response A", "Response B", "Response C", "Response D" >>

\* label in label_to_model
LabelKnown(label, l2m) == \E k \in DOMAIN l2m : LabelNames[k] = label

\* label_to_model[label]
ModelOfLabel(label, l2m) == l2m[CHOOSE k \in DOMAIN l2m : LabelNames[k] = label]

RECURSIVE SumSeq(_)
SumSeq(s) == IF s = <<>> THEN 0 ELSE s[1] + SumSeq(Tail(s))

\* Variant: round(x, 2) cuts the digits after the second decimal.
RoundHundredthsDown(p, q) == (100 * p) \div q

\* round(p / q, 2) in hundredths, for p >= 0 and q > 0: the nearest hundredth, the
\* even one when two are equally near.
RoundHundredths(p, q) ==
    LET f == (100 * p) \div q
        r == (100 * p) % q
    IN  IF 2 * r < q THEN f
        ELSE IF 2 * r > q THEN f + 1
        ELSE IF f % 2 = 0 THEN f ELSE f + 1

\* "if x is not None: ... += float(x)"
Amount(x) == IF x = None THEN 0 ELSE x[1]

\* Variant: only the first record of a worker is counted.
TimeCostFirstRecordOnly(records, m, field) ==
    LET mine == SelectSeq(records, LAMBDA r : r.model = m)
    IN  IF mine = <<>> THEN 0 ELSE Amount(mine[1][field])

\* stage1_time_cost[m][field] and stage2_time_cost[m][field] after the two loops.
TimeCost(records, m, field) ==
    LET mine == SelectSeq(records, LAMBDA r : r.model = m)
    IN  SumSeq([ i \in DOMAIN mine |-> Amount(mine[i][field]) ])

\* model_positions is a dict in insertion order: a sequence of [model, positions].
\* model_positions[m].append(p)
AppendPosition(mp, m, p) ==
    IF \E i \in DOMAIN mp : mp[i].model = m
    THEN [ i \in DOMAIN mp |->
             IF mp[i].model = m THEN [mp[i] EXCEPT !.positions = Append(@, p)] ELSE mp[i] ]
    ELSE Append(mp, [model |-> m, positions |-> << p >>])

\* Variant: a label outside the map does not count as a position.
EnumeratedPositionKnownOnly(parsed, l2m, k) ==
    Cardinality({ i \in 1..k : LabelKnown(parsed[i], l2m) })

\* enumerate(parsed_ranking, start=1): the position of the k-th label.
EnumeratedPosition(parsed, l2m, k) == k

\* The loop over one parsed ranking, from its k-th label on.
RECURSIVE WalkRanking(_, _, _, _)
WalkRanking(parsed, l2m, mp, k) ==
    IF k > Len(parsed)
    THEN mp
    ELSE WalkRanking(parsed, l2m,
                     IF LabelKnown(parsed[k], l2m)
                     THEN AppendPosition(mp, ModelOfLabel(parsed[k], l2m),
                                         EnumeratedPosition(parsed, l2m, k))
                     ELSE mp,
                     k + 1)

\* The loop over stage2_results, from the j-th judgment on.
RECURSIVE ModelPositions(_, _, _, _)
ModelPositions(s2, l2m, mp, j) ==
    IF j > Len(s2)
    THEN mp
    ELSE ModelPositions(s2, l2m,
                        WalkRanking(ParseRankingFromText(s2[j].ranking), l2m, mp, 1),
                        j + 1)

\* The dict appended to `aggregate` for one entry of model_positions.
AggregateEntry(e, s1, s2) ==
    [model |-> e.model,
     average_rank |-> RoundHundredths(SumSeq(e.positions), Len(e.positions)),
     rankings_count |-> Len(e.positions),
     total_elapsed_time |->
         RoundHundredths(TimeCost(s1, e.model, "elapsed_time")
                             + TimeCost(s2, e.model, "elapsed_time"), HundredthsPerUnit),
     total_cost |->
         RoundHundredths(TimeCost(s1, e.model, "cost") + TimeCost(s2, e.model, "cost"),
                         HundredthsPerUnit)]

\* Variant: a worker with a stage-1 record and no ranking is listed too, with rank 0.
AggregateEntriesWithUnranked(mp, s1, s2) ==
    LET ranked == SelectSeq(mp, LAMBDA e : e.positions # <<>>)
        unranked == SelectSeq(s1, LAMBDA r : \A i \in DOMAIN mp : mp[i].model # r.model)
    IN  [ i \in DOMAIN ranked |-> AggregateEntry(ranked[i], s1, s2) ]
        \o [ i \in DOMAIN unranked |->
               [model |-> unranked[i].model, average_rank |-> 0, rankings_count |-> 0,
                total_elapsed_time |-> 0, total_cost |-> 0] ]

\* "for model, positions in model_positions.items(): if positions: aggregate.append"
AggregateEntries(mp, s1, s2) ==
    LET ranked == SelectSeq(mp, LAMBDA e : e.positions # <<>>)
    IN  [ i \in DOMAIN ranked |-> AggregateEntry(ranked[i], s1, s2) ]

\* Variant: an entry is placed before the entries of equal average_rank.
InsertByAverageRankBeforeEqual(sorted, x) ==
    LET k == Cardinality({ i \in DOMAIN sorted : sorted[i].average_rank < x.average_rank })
    IN  SubSeq(sorted, 1, k) \o << x >> \o SubSeq(sorted, k + 1, Len(sorted))

\* x placed into an ascending list after every entry whose key is not larger.
InsertByAverageRank(sorted, x) ==
    LET k == Cardinality({ i \in DOMAIN sorted : sorted[i].average_rank <= x.average_rank })
    IN  SubSeq(sorted, 1, k) \o << x >> \o SubSeq(sorted, k + 1, Len(sorted))

\* aggregate.sort(key=lambda x: x['average_rank']): list.sort is stable.
RECURSIVE SortByAverageRank(_)
SortByAverageRank(s) ==
    IF s = <<>>
    THEN <<>>
    ELSE InsertByAverageRank(SortByAverageRank(SubSeq(s, 1, Len(s) - 1)), s[Len(s)])

\* calculate_aggregate_rankings(stage2_results, label_to_model, stage1_results)
CalculateAggregateRankings(s2, l2m, s1) ==
    SortByAverageRank(AggregateEntries(ModelPositions(s2, l2m, <<>>, 1), s1, s2))

\* The workers of the explored aggregations.
AggregateWorkers == {1, 2}

\* The judge texts of the explored aggregations: B before A, A before B, a label
\* (C) that small label maps do not hold before A, and one bare mention of A.
JudgeTexts ==
    { << FINAL_RANKING, "1.", "Response B", "2.", "Response A" >>,
      << FINAL_RANKING, "1.", "Response A", "2.", "Response B" >>,
      << FINAL_RANKING, "1.", "Response C", "2.", "Response A" >>,
      << "Response A" >> }

\* Who judged and what the call took: worker 1 timed but not priced, worker 1 priced
\* but not timed, worker 2 timed and priced.
JudgeCalls ==
    { [model |-> 1, elapsed_time |-> Some(1207), cost |-> None],
      [model |-> 1, elapsed_time |-> None, cost |-> Some(20)],
      [model |-> 2, elapsed_time |-> Some(1207), cost |-> Some(20)] }

\* The stage-2 records of the explored aggregations.
JudgmentRecords ==
    { [model |-> c.model, ranking |-> t, elapsed_time |-> c.elapsed_time, cost |-> c.cost] :
        c \in JudgeCalls, t \in JudgeTexts }

\* The stage-1 lists of the explored aggregations: none, two first-attempt successes,
\* and worker 1 with a placeholder and a retry record before worker 2.
Stage1Lists ==
    { <<>>,
      << ResultRecord(1, "answer", [elapsed_time |-> Some(531), usage |-> Some("usage"),
                                    cost |-> Some(10)]),
         ResultRecord(2, "answer", [elapsed_time |-> Some(2999), usage |-> Some("usage"),
                                    cost |-> None]) >>,
      << PlaceholderRecord(1, MIGHT_RETRY),
         ResultRecord(1, SECOND_ATTEMPT_PREFIX \o "answer",
                      [elapsed_time |-> Some(1833), usage |-> Some("usage"), cost |-> Some(7)]),
         ResultRecord(2, "answer", [elapsed_time |-> None, usage |-> None,
                                    cost |-> Some(1)]) >> }

\* A call of calculate_aggregate_rankings on some arguments.
InitAggregate ==
    /\ PipelineIdle
    /\ stage1_results \in Stage1Lists
    /\ stage2_results \in UNION { [1..n -> JudgmentRecords] : n \in 0..MaxJudgments }
    /\ label_to_model \in UNION { [1..n -> AggregateWorkers] : n \in 0..MaxLabels }
    /\ pc = "aggregate"
    /\ ranking_text = None
    /\ parsed_ranking = None
    /\ aggregate = None

\* The call returns.
AggregateReturn ==
    /\ pc = "aggregate"
    /\ aggregate' = Some(CalculateAggregateRankings(stage2_results, label_to_model,
                                                    stage1_results))
    /\ pc' = "aggregated"
    /\ UNCHANGED << idle_vars, stage1_results, stage2_results, label_to_model, ranking_text,
                    parsed_ranking >>

NextAggregate == AggregateReturn

SpecAggregate == InitAggregate /\ [][NextAggregate]_vars

\* ---------------------------------------------------------------- properties of the aggregation

\* The aggregation has returned.
Aggregated == pc = "aggregated" /\ aggregate # None

\* The entries of the aggregate output for worker m.
EntriesOf(m) == SelectSeq(aggregate[1], LAMBDA e : e.model = m)

\* The 1-based positions at which a parsed ranking names a label of worker m.
PositionsGiven(parsed, l2m, m) ==
    SelectSeq([ p \in 1..Len(parsed) |-> p ],
              LAMBDA p : \E k \in DOMAIN l2m : LabelNames[k] = parsed[p] /\ l2m[k] = m)

\* What worker m receives from all judgments, in judgment order.
PositionsReceived(m) ==
    Flatten([ j \in DOMAIN stage2_results |->
                PositionsGiven(ParseRankingFromText(stage2_results[j].ranking),
                               label_to_model, m) ])

\* C22: for each judgment and each label at 1-based position p of its parsed ranking
\* the value p is accumulated onto the worker the label map gives for the label; a
\* label absent from the map contributes nothing, raises no error and still occupies
\* its position.
C22_PositionsAccumulated ==
    Aggregated =>
        LET mp == ModelPositions(stage2_results, label_to_model, <<>>, 1) IN
        /\ \A i \in DOMAIN mp : mp[i].positions = PositionsReceived(mp[i].model)
        /\ \A i, j \in DOMAIN mp : mp[i].model = mp[j].model => i = j
        /\ \A m \in AggregateWorkers :
              /\ PositionsReceived(m) # <<>> => \E i \in DOMAIN mp : mp[i].model = m
              /\ \A k \in DOMAIN EntriesOf(m) :
                    EntriesOf(m)[k].rankings_count = Len(PositionsReceived(m))

\* C22 witness: one judge ranked an unknown label first and label A second; the worker
\* of label A is aggregated with the single position 2.
C22_Witness ==
    /\ Aggregated
    /\ label_to_model = << 2 >>
    /\ Len(stage2_results) = 1
    /\ ParseRankingFromText(stage2_results[1].ranking) = << "Response C", "Response A" >>
    /\ Len(aggregate[1]) = 1
    /\ aggregate[1][1].model = 2
    /\ aggregate[1][1].average_rank = 200
    /\ aggregate[1][1].rankings_count = 1

\* C23: a worker that received no ranking from any judge (one without a stage-1
\* response, or one whose label no judge mentioned) is absent from the aggregate
\* output, and every aggregate entry has rankings_count >= 1.
C23_UnrankedWorkersAbsent ==
    Aggregated =>
        /\ \A k \in DOMAIN aggregate[1] :
              /\ aggregate[1][k].rankings_count >= 1
              /\ PositionsReceived(aggregate[1][k].model) # <<>>
        /\ \A m \in AggregateWorkers \cup { stage1_results[k].model : k \in DOMAIN stage1_results } :
              PositionsReceived(m) = <<>> => EntriesOf(m) = <<>>

\* C23 witness: worker 2 has a stage-1 record and a label, the only judge mentioned
\* worker 1's label alone, and the aggregate lists worker 1 only.
C23_Witness ==
    /\ Aggregated
    /\ label_to_model = << 1, 2 >>
    /\ \E k \in DOMAIN stage1_results : stage1_results[k].model = 2
    /\ Len(stage2_results) = 1
    /\ stage2_results[1].ranking = << "Response A" >>
    /\ Len(aggregate[1]) = 1
    /\ aggregate[1][1].model = 1

\* a (in hundredths) is p / q rounded to 2 decimals: no hundredth is nearer, and of
\* two equally near ones a is the even one.
IsRoundedTo2(a, p, q) ==
    LET d == 100 * p - a * q
        dist == IF d < 0 THEN 0 - d ELSE d
    IN  /\ 2 * dist <= q
        /\ 2 * dist = q => a % 2 = 0

\* C24: for every worker with a non-empty position list, average_rank is the mean of
\* its accumulated positions rounded to 2 decimals and rankings_count is their
\* number; judges J1 -> [B, A] and J2 -> [A, B] with A -> m1 and B -> m2 give m1 and
\* m2 both present with average_rank 1.5 and rankings_count 2.
C24_AverageRankIsRoundedMean ==
    Aggregated =>
        /\ \A m \in AggregateWorkers :
              PositionsReceived(m) # <<>> =>
                  /\ Len(EntriesOf(m)) = 1
                  /\ EntriesOf(m)[1].rankings_count = Len(PositionsReceived(m))
                  /\ IsRoundedTo2(EntriesOf(m)[1].average_rank,
                                  SumSeq(PositionsReceived(m)), Len(PositionsReceived(m)))
        /\ ( /\ label_to_model = << 1, 2 >>
             /\ Len(stage2_results) = 2
             /\ ParseRankingFromText(stage2_results[1].ranking) = << "Response B", "Response A" >>
             /\ ParseRankingFromText(stage2_results[2].ranking) = << "Response A", "Response B" >> )
           => /\ Len(aggregate[1]) = 2
              /\ \A m \in {1, 2} :
                    /\ EntriesOf(m)[1].average_rank = 150
                    /\ EntriesOf(m)[1].rankings_count = 2

\* C24 witness: the example of the claim has been aggregated.
C24_Witness ==
    /\ Aggregated
    /\ label_to_model = << 1, 2 >>
    /\ Len(stage2_results) = 2
    /\ ParseRankingFromText(stage2_results[1].ranking) = << "Response B", "Response A" >>
    /\ ParseRankingFromText(stage2_results[2].ranking) = << "Response A", "Response B" >>
    /\ { aggregate[1][k].average_rank : k \in DOMAIN aggregate[1] } = {150}

\* C24 witness of a mean that needs rounding: positions 2, 1, 2 give 1.67.
C24_RoundedUpReached ==
    /\ Aggregated
    /\ \E k \in DOMAIN aggregate[1] :
          /\ aggregate[1][k].rankings_count = 3
          /\ aggregate[1][k].average_rank = 167

\* The sum of a field over the records of worker m, a missing value counting 0.
RECURSIVE FieldSum(_, _, _)
FieldSum(records, m, field) ==
    IF records = <<>>
    THEN 0
    ELSE (IF records[1].model = m /\ records[1][field] # None THEN records[1][field][1] ELSE 0)
         + FieldSum(Tail(records), m, field)

\* What worker m spent in both stages, in hundredths.
TotalSpent(m, field) ==
    FieldSum(stage1_results, m, field) + FieldSum(stage2_results, m, field)

\* C25: total_elapsed_time and total_cost of every aggregate entry equal the sum over
\* all stage-1 records of the worker, placeholder and retry record included and null
\* counting 0, plus the sum over the stage-2 records in which the worker was judge.
C25_TotalsAreSums ==
    Aggregated =>
        \A k \in DOMAIN aggregate[1] :
            LET e == aggregate[1][k] IN
            /\ e.total_elapsed_time = TotalSpent(e.model, "elapsed_time")
            /\ e.total_cost = TotalSpent(e.model, "cost")

\* C25 witness: worker 1 has a placeholder and a retry record (18.33 s, cost 0.07)
\* and judged twice, once timed (12.07 s) and once priced (0.20); its entry totals
\* 30.40 s and 0.27.
C25_Witness ==
    /\ Aggregated
    /\ Len(stage1_results) = 3
    /\ stage1_results[1].response = MIGHT_RETRY
    /\ stage1_results[2].model = 1
    /\ Len(SelectSeq(stage2_results, LAMBDA r : r.model = 1)) = 2
    /\ Len(EntriesOf(1)) = 1
    /\ EntriesOf(1)[1].total_elapsed_time = 3040
    /\ EntriesOf(1)[1].total_cost = 27

\* The positions the j-th judgment gives worker m.
GivenBy(j, m) ==
    PositionsGiven(ParseRankingFromText(stage2_results[j].ranking), label_to_model, m)

\* When worker m first received a position: the judgment and the position in it.
FirstRanked(m) ==
    LET first == CHOOSE j \in DOMAIN stage2_results :
                     GivenBy(j, m) # <<>> /\ \A i \in 1..(j - 1) : GivenBy(i, m) = <<>>
    IN  << first, GivenBy(first, m)[1] >>

\* Worker a received its first position before worker b did.
RankedBefore(a, b) ==
    \/ FirstRanked(a)[1] < FirstRanked(b)[1]
    \/ FirstRanked(a)[1] = FirstRanked(b)[1] /\ FirstRanked(a)[2] < FirstRanked(b)[2]

\* C26: the aggregate output is sorted ascending by average_rank, and entries of equal
\* average_rank keep the order in which their workers first accumulated a position.
C26_StableSortByAverageRank ==
    Aggregated =>
        \A a, b \in DOMAIN aggregate[1] :
            a < b =>
                /\ aggregate[1][a].average_rank <= aggregate[1][b].average_rank
                /\ aggregate[1][a].average_rank = aggregate[1][b].average_rank =>
                      RankedBefore(aggregate[1][a].model, aggregate[1][b].model)

\* C26 witness: workers 2 and 1 tie at 1.5 and worker 2, ranked first by the first
\* judge, is listed first.
C26_Witness ==
    /\ Aggregated
    /\ Len(aggregate[1]) = 2
    /\ aggregate[1][1].model = 2
    /\ aggregate[1][2].model = 1
    /\ aggregate[1][1].average_rank = 150
    /\ aggregate[1][2].average_rank = 150

\* C26 witness of a reordering: the worker ranked first by accumulation is listed last.
C26_ReorderedReached ==
    /\ Aggregated
    /\ Len(aggregate[1]) = 2
    /\ aggregate[1][1].average_rank < aggregate[1][2].average_rank
    /\ RankedBefore(aggregate[1][2].model, aggregate[1][1].model)

\* ---------------------------------------------------------------- properties of the rank extractor

\* parse_ranking_from_text has returned.
Parsed == pc = "parsed" /\ parsed_ranking # None

\* The marker occurs in the text.
HasMarker(text) == \E i \in DOMAIN text : text[i] = FINAL_RANKING

\* Everything after the first occurrence of the marker.
AfterFirstMarker(text) ==
    LET i == CHOOSE x \in DOMAIN text :
                 text[x] = FINAL_RANKING /\ \A j \in 1..(x - 1) : text[j] # FINAL_RANKING
    IN  SubSeq(text, i + 1, Len(text))

\* The text between the first occurrence of the marker and the next one (the end of
\* the text when there is no other).
UpToNextMarker(section) ==
    IF HasMarker(section)
    THEN SubSeq(section, 1,
                (CHOOSE x \in DOMAIN section :
                     section[x] = FINAL_RANKING
                     /\ \A j \in 1..(x - 1) : section[j] # FINAL_RANKING) - 1)
    ELSE section

\* C27: when the marker occurs in the judge text, the verdict section used by the
\* extractor is everything after the marker's first occurrence, also when the marker
\* occurs more than once: labels after a second occurrence are part of the ranking.
C27_SectionIsAllAfterFirstMarker ==
    (Parsed /\ HasMarker(ranking_text[1])) =>
        parsed_ranking[1] = ExtractLabels(AfterFirstMarker(ranking_text[1]))

\* What the code does instead: the verdict section ends at the second occurrence.
C27_SectionEndsAtNextMarker ==
    (Parsed /\ HasMarker(ranking_text[1])) =>
        parsed_ranking[1] = ExtractLabels(UpToNextMarker(AfterFirstMarker(ranking_text[1])))

\* The failing input of C27: a label after a second marker is not extracted.
C27_LabelAfterSecondMarkerLost ==
    /\ Parsed
    /\ ranking_text[1] = << FINAL_RANKING, "Response A", FINAL_RANKING, "Response B" >>
    /\ parsed_ranking[1] = << "Response A" >>

\* The verdict section the extractor works on.
VerdictSection(text) == UpToNextMarker(AfterFirstMarker(text))

\* The positions of the labels of numbered entries: a label preceded by an integer
\* with its period, with nothing but white space between them.
NumberedLabelIdx(section) ==
    { j \in DOMAIN section :
        /\ section[j] \in LabelTokens
        /\ \E i \in 1..(j - 1) :
              /\ section[i] \in NumberTokens
              /\ \A x \in (i + 1)..(j - 1) : section[x] \in SpaceTokens }

\* The tokens of a section at the positions of a set, in order of appearance.
RECURSIVE TokensAt(_, _, _)
TokensAt(section, idx, from) ==
    IF from > Len(section)
    THEN <<>>
    ELSE (IF from \in idx THEN << section[from] >> ELSE <<>>)
         \o TokensAt(section, idx, from + 1)

\* C28: within the verdict section, if at least one numbered entry exists the
\* extractor returns exactly the labels of the numbered entries in order of
\* appearance and ignores bare mentions; only if none exists does it return all bare
\* label occurrences of the section in order.  The documented example gives
\* [Response B, Response A].
C28_NumberedEntriesFirst ==
    (Parsed /\ HasMarker(ranking_text[1])) =>
        LET section == VerdictSection(ranking_text[1])
            numbered == NumberedLabelIdx(section)
            bare == { j \in DOMAIN section : section[j] \in LabelTokens }
        IN  /\ numbered # {} => parsed_ranking[1] = TokensAt(section, numbered, 1)
            /\ numbered = {} => parsed_ranking[1] = TokensAt(section, bare, 1)
            /\ ranking_text[1] = << "text", " ", FINAL_RANKING, "\n", "1.", " ", "Response B",
                                    "\n", "2.", " ", "Response A" >>
                  => parsed_ranking[1] = << "Response B", "Response A" >>

\* C28 witness: the section holds a bare mention of B and the numbered entry of A;
\* only A is returned.
C28_Witness ==
    /\ Parsed
    /\ ranking_text[1] = << FINAL_RANKING, "Response B", "1.", " ", "Response A" >>
    /\ parsed_ranking[1] = << "Response A" >>

\* C28 witness of the documented example.
C28_ExampleReached ==
    /\ Parsed
    /\ Len(ranking_text[1]) = 11
    /\ parsed_ranking[1] = << "Response B", "Response A" >>

\* C28 witness of the bare fallback inside the section.
C28_BareFallbackReached ==
    /\ Parsed
    /\ ranking_text[1] = << "Response A", FINAL_RANKING, "Response B", "text", "Response A" >>
    /\ parsed_ranking[1] = << "Response B", "Response A" >>

\* C29: without the marker the extractor returns all bare label occurrences of the
\* whole text in order of appearance, the empty sequence when there are none; for
\* every text it returns a sequence of labels and never fails.
C29_WholeTextFallback ==
    /\ pc = "parse" => ENABLED ParseReturn
    /\ Parsed =>
          /\ DOMAIN parsed_ranking[1] = 1..Len(parsed_ranking[1])
          /\ \A k \in DOMAIN parsed_ranking[1] : parsed_ranking[1][k] \in LabelTokens
          /\ ~HasMarker(ranking_text[1]) =>
                parsed_ranking[1] =
                    TokensAt(ranking_text[1],
                             { j \in DOMAIN ranking_text[1] : ranking_text[1][j] \in LabelTokens },
                             1)
          /\ ranking_text[1] = << "text", " ", "text" >> => parsed_ranking[1] = <<>>

\* C29 witness: a text without the marker that mentions B in a numbered entry and
\* then A; both are returned, in that order.
C29_Witness ==
    /\ Parsed
    /\ ranking_text[1] = << "1.", "Response B", "text", "Response A" >>
    /\ parsed_ranking[1] = << "Response B", "Response A" >>

\* C29 witness of the documented example without marker and mentions.
C29_EmptyReached ==
    /\ Parsed
    /\ ranking_text[1] = << "text", " ", "text" >>
    /\ parsed_ranking[1] = <<>>

\* ---------------------------------------------------------------- isolated failures in batch mode

\* Batch stage 1 has returned for a non-empty council.
BatchStage1Returned ==
    mode \in BatchModes /\ models # <<>> /\ pc \notin {"start", "s1_gather", "s1_retry"}

\* Batch stage 2 has returned.
BatchStage2Returned == mode \in BatchModes /\ pc \in {"s2_done", "s3", "done"}

\* Every first-attempt failure of stage 1 was retried in the one retry round and is
\* surfaced as the placeholder record of its worker.
Stage1FailuresRetriedAndSurfaced ==
    BatchStage1Returned =>
        /\ Len(CallsOfStage(1)) <= 2
        /\ \A m \in Range(models) :
              responses[m] = None =>
                  /\ Len(CallsOfStage(1)) = 2
                  /\ m \in Range(CallsOfStage(1)[2].models)
                  /\ \E k \in DOMAIN stage1_results :
                        /\ stage1_results[k].model = m
                        /\ stage1_results[k].response = MIGHT_RETRY

StartEvent == << "stage1_start", "stage2_start", "stage3_start" >>
CompleteEvent == << "stage1_complete", "stage2_complete", "stage3_complete" >>

\* The per-model and majority events of stage k as they are sent to the client.
InnerEvents(k) ==
    IF k = 1 THEN {"stage1_model_complete", "stage1_model_failed", "stage1_majority"}
    ELSE IF k = 2 THEN {"stage2_model_complete", "stage2_model_failed", "stage2_majority"}
    ELSE {}

SsePositions(e) == { i \in DOMAIN sse : sse[i] = e }

SseBefore(a, b) == \E i \in SsePositions(a) : \A j \in SsePositions(b) : i < j

\* C31: a streamed run (batch or quorum) sends each stage start and stage complete
\* event once, every start before its own complete, the complete events in stage
\* order, and every per-model and majority event of a stage after that stage's start
\* and before that stage's complete; a finished run has sent all six.
C31_StageEventsOrdered ==
    mode \in {"batch", "quorum"} =>
        /\ \A k \in 1..3 :
              /\ Cardinality(SsePositions(StartEvent[k])) <= 1
              /\ Cardinality(SsePositions(CompleteEvent[k])) <= 1
              /\ SsePositions(CompleteEvent[k]) # {} =>
                     /\ SsePositions(StartEvent[k]) # {}
                     /\ SseBefore(StartEvent[k], CompleteEvent[k])
              /\ (k < 3 /\ SsePositions(CompleteEvent[k + 1]) # {}) =>
                     /\ SsePositions(CompleteEvent[k]) # {}
                     /\ SseBefore(CompleteEvent[k], CompleteEvent[k + 1])
              /\ \A i \in DOMAIN sse :
                     sse[i] \in InnerEvents(k) =>
                         /\ \E s \in SsePositions(StartEvent[k]) : s < i
                         /\ \A c \in SsePositions(CompleteEvent[k]) : i < c
        /\ pc = "done" =>
              \A k \in 1..3 : /\ Cardinality(SsePositions(StartEvent[k])) = 1
                              /\ Cardinality(SsePositions(CompleteEvent[k])) = 1

\* A finished quorum run whose stage 1 reached its majority and then heard from a
\* laggard, so stage2_start lies between stage-1 events.
C31_Witness ==
    /\ mode = "quorum"
    /\ pc = "done"
    /\ \E i \in SsePositions("stage2_start") :
          \E j \in DOMAIN sse : j > i /\ sse[j] \in InnerEvents(1)

\* A finished quorum run in which neither stage reached a majority.
C31_NoMajorityReached ==
    /\ mode = "quorum"
    /\ pc = "done"
    /\ Len(models) > 0
    /\ SsePositions("stage1_majority") = {}
    /\ SsePositions("stage2_majority") = {}

\* A finished batch run.
C31_BatchReached == mode = "batch" /\ pc = "done" /\ Len(models) > 0

\* ---------------------------------------------------------------- title task and storage

TITLE_MAX_LEN == 50
TITLE_KEPT_LEN == 47

Whitespace == {" ", "\n"}
QuoteChars == {"\"", "'"}

RECURSIVE LStrip(_, _)
LStrip(t, chars) ==
    IF t # <<>> /\ Head(t) \in chars THEN LStrip(Tail(t), chars) ELSE t

RECURSIVE RStrip(_, _)
RStrip(t, chars) ==
    IF t # <<>> /\ t[Len(t)] \in chars THEN RStrip(SubSeq(t, 1, Len(t) - 1), chars) ELSE t

\* str.strip(chars)
Strip(t, chars) == RStrip(LStrip(t, chars), chars)

\* The clean-up of generate_conversation_title: strip whitespace, strip quotes, and
\* cut a title of more than 50 characters to 47 characters plus "...".
CleanTitle(content) ==
    LET stripped == Strip(Strip(content, Whitespace), QuoteChars) IN
    IF Len(stripped) > TITLE_MAX_LEN
    THEN SubSeq(stripped, 1, TITLE_KEPT_LEN) \o << ".", ".", "." >>
    ELSE stripped

\* Contents the title model may return: a plain title, a quoted title with a
\* leading blank, and a title of 51 characters.
TitleContents ==
    { << "w" >>, << " ", "\"", "w", "\"" >>, [ i \in 1..(TITLE_MAX_LEN + 1) |-> "w" ] }

\* query_model passes on message.get('content'), which is None when the message
\* carries no content.
TitleResponses == { [content |-> Some(c)] : c \in TitleContents } \cup { [content |-> None] }

\* response.get('content', 'New Conversation').strip() raises AttributeError when the
\* response's content is None: the key is present, so the default is not used.
TitleRaises(response) == response # None /\ response[1].content = None

\* The return value of generate_conversation_title when it does not raise.
GenerateConversationTitle(response) ==
    IF response = None THEN DEFAULT_TITLE ELSE CleanTitle(response[1].content[1])

\* The streamed endpoint: the title task is created when the conversation had no
\* message before this one.
InitStream ==
    /\ mode \in {"batch", "quorum"}
    /\ PipelineStart
    /\ \E is_first_message \in BOOLEAN :
          title_task = IF is_first_message THEN "running" ELSE "none"
    /\ title_response = None
    /\ title = DEFAULT_TITLE
    /\ saved = None

\* The query_model call of the title task settles, at any point of the pipeline.
SettleTitle(r) ==
    /\ title_task = "running"
    /\ pc \notin {"saved", "error"}
    /\ title_task' = "done"
    /\ title_response' = r
    /\ UNCHANGED << function_vars, mode, models, pc, calls, pending, responses, retry_timeout,
                    retry_responses, stage1_results, results, completed_count,
                    majority_yielded, events, stage1_majority_results,
                    stage2_majority_results, stage2_input, label_to_model, judges,
                    judge_responses, stage2_results, stage3_args, stage3_result,
                    chairman_response, sse, title, saved >>

\* event_generator after stage3_complete: await the title task if there is one, store
\* the title, store the assistant message and send the closing events; an exception
\* of the awaited task is caught by the generator's except clause, which sends error.
\* (The stored metadata also holds aggregate_rankings, computed from label_to_model.)
FinishStream ==
    /\ pc = "done"
    /\ mode \in {"batch", "quorum"}
    /\ title_task \in {"none", "done"}
    /\ IF title_task = "done" /\ TitleRaises(title_response)
       THEN /\ sse' = Append(sse, "error")
            /\ pc' = "error"
            /\ UNCHANGED << title, saved >>
       ELSE /\ title' = IF title_task = "done"
                        THEN GenerateConversationTitle(title_response) ELSE title
            /\ saved' = Some([stage1 |-> stage1_results,
                              stage2 |-> stage2_results,
                              stage3 |-> stage3_result[1],
                              metadata |-> [label_to_model |-> label_to_model]])
            /\ sse' = sse \o (IF title_task = "done" THEN << "title_complete" >> ELSE <<>>)
                          \o << "timing_complete", "complete" >>
            /\ pc' = "saved"
    /\ UNCHANGED << function_vars, mode, models, calls, pending, responses, retry_timeout,
                    retry_responses, stage1_results, results, completed_count,
                    majority_yielded, events, stage1_majority_results,
                    stage2_majority_results, stage2_input, label_to_model, judges,
                    judge_responses, stage2_results, stage3_args, stage3_result,
                    chairman_response, title_task, title_response >>

NextStream ==
    \/ Stage1Dispatch
    \/ \E m \in Range(models) : \E r \in Outcomes(Stage1Responses) : SettleFirst(m, r)
    \/ Stage1FirstRoundDone
    \/ \E m \in Range(models) : \E r \in Outcomes(Stage1Responses) : SettleRetry(m, r)
    \/ Stage1RetryDone
    \/ Stage1StreamStart
    \/ \E m \in Range(models) : \E r \in Outcomes(Stage1Responses) : Stage1StreamStep(m, r)
    \/ Stage1StreamComplete
    \/ Stage2Dispatch
    \/ \E m \in Range(models) : \E r \in Outcomes(Stage2Responses) : SettleJudge(m, r)
    \/ Stage2Return
    \/ Stage2StreamStart
    \/ \E m \in Range(models) : \E r \in Outcomes(Stage2Responses) : Stage2StreamStep(m, r)
    \/ Stage2StreamComplete
    \/ Stage3Dispatch
    \/ \E r \in Outcomes(Stage3Responses) : SettleChairman(r)
    \/ \E r \in Outcomes(TitleResponses) : SettleTitle(r)
    \/ FinishStream

SpecStream == InitStream /\ [][NextStream]_vars

\* The title task has settled without producing a title of its own: its call failed,
\* or the task raised.
TitleTaskFailed ==
    title_task = "done" /\ (title_response = None \/ TitleRaises(title_response))

\* C32: a failure of the title task yields the default title and does not keep the
\* run from completing: the run is never ended by the error event because of it, and
\* a run stored after a failed title task carries the title "New Conversation".
C32_TitleFailureHarmless ==
    TitleTaskFailed =>
        /\ pc # "error"
        /\ pc = "saved" => title = DEFAULT_TITLE

\* C32, the part that holds: a title task whose call failed (query_model returned
\* None) gives the default title, and the message is stored.
C32_CallFailureGivesDefaultTitle ==
    (title_task = "done" /\ title_response = None) =>
        /\ pc # "error"
        /\ pc = "saved" => title = DEFAULT_TITLE /\ saved # None

\* C32, the part that holds: the task is joined only after stage 3 has completed, in
\* the step that stores the message, and neither its settling nor its join changes a
\* stage result.
C32_JoinedAfterStage3 ==
    [][ /\ title' # title => (pc = "done" /\ stage3_result # None /\ pc' = "saved"
                              /\ saved = None /\ saved' # None)
        /\ (title_task' # title_task \/ title' # title) =>
               UNCHANGED << stage1_results, stage2_results, stage3_result, label_to_model,
                            stage2_input >> ]_vars

\* The title task raised and the run ended with the error event, nothing stored.
C32_RunEndedByTitleTask ==
    /\ pc = "error"
    /\ title_task = "done"
    /\ TitleRaises(title_response)
    /\ stage3_result # None
    /\ saved = None

\* The title task settled while stage 1 was still collecting, and the run was stored
\* with the default title after a failed title call.
C32_DefaultTitleStored ==
    /\ pc = "saved"
    /\ title_task = "done"
    /\ title_response = None
    /\ title = DEFAULT_TITLE

\* ---------------------------------------------------------------- batch stage-1 output size

\* The candidates whose first attempt failed and whose retry succeeded.
RetriedSuccesses ==
    { m \in Range(models) : responses[m] = None /\ Get(retry_responses, m) # None }

C33_LongerThanCouncilReached ==
    /\ mode \in BatchModes
    /\ pc = "s1_done"
    /\ Len(stage1_results) > Len(models)
    /\ Cardinality(RetriedSuccesses) < Len(models)

\* ---------------------------------------------------------------- stored label map

\* C34: in quorum mode the label map stored with the run is aligned with the stage-1
\* list stored with the run: the k-th label maps to the worker of the k-th stored
\* stage-1 record.
C34_StoredLabelsAligned ==
    (mode = "quorum" /\ saved # None) =>
        LET stored == saved[1] IN
        \A k \in DOMAIN stored.metadata.label_to_model :
            /\ k \in DOMAIN stored.stage1
            /\ stored.metadata.label_to_model[k] = stored.stage1[k].model

\* What the code keeps instead: the stored label map is aligned with the list that
\* was handed to stage 2 (the majority snapshot when there is one), which is not
\* stored.
C34_StoredLabelsFollowStage2Input ==
    (mode = "quorum" /\ saved # None) =>
        LET stored == saved[1] IN
        /\ DOMAIN stored.metadata.label_to_model = DOMAIN stage2_input
        /\ \A k \in DOMAIN stage2_input :
              stored.metadata.label_to_model[k] = stage2_input[k].model

\* A stored quorum run whose first label names a worker other than the worker of the
\* first stored stage-1 record, all workers having answered.
C34_MisalignedStored ==
    /\ mode = "quorum"
    /\ saved # None
    /\ \A k \in DOMAIN saved[1].stage1 : saved[1].stage1[k].response # NO_RESPONSE
    /\ saved[1].metadata.label_to_model # <<>>
    /\ saved[1].metadata.label_to_model[1] # saved[1].stage1[1].model

\* ---------------------------------------------------------------- labels and placeholders

\* responses_text: one labelled entry per stage-1 record handed to stage 2.
ResponsesText(s1) == [ k \in DOMAIN s1 |-> [label |-> k, response |-> s1[k].response] ]

\* Stage 2 has built its label map and prompt.
Stage2Started == pc \in {"s2_gather", "s2_stream", "s2_done", "s3", "done"}

\* C35: no label refers to a placeholder stage-1 record, and no placeholder text is
\* presented to the judges, in batch and in quorum mode.
C35_NoLabelForPlaceholder ==
    (mode \in {"batch", "quorum"} /\ Stage2Started) =>
        /\ \A k \in DOMAIN label_to_model :
              stage2_input[k].response \notin {NO_RESPONSE, MIGHT_RETRY}
        /\ judges # <<>> =>
              \A k \in DOMAIN ResponsesText(stage2_input) :
                  ResponsesText(stage2_input)[k].response \notin {NO_RESPONSE, MIGHT_RETRY}

\* What the code does: every record handed to stage 2 gets a label, placeholder or not.
C35_EveryRecordLabelled ==
    Stage2Started =>
        /\ DOMAIN label_to_model = DOMAIN stage2_input
        /\ \A k \in DOMAIN stage2_input : label_to_model[k] = stage2_input[k].model

\* Batch mode: a judge is asked to rank a labelled "No response. Might retry." record.
C35_BatchPlaceholderJudged ==
    /\ mode = "batch"
    /\ pc = "s2_gather"
    /\ judges # <<>>
    /\ \E k \in DOMAIN label_to_model : stage2_input[k].response = MIGHT_RETRY

\* Quorum mode without a stage-1 majority: a judge is asked to rank a labelled
\* "No response." record.
C35_QuorumPlaceholderJudged ==
    /\ mode = "quorum"
    /\ pc = "s2_stream"
    /\ judges # <<>>
    /\ ~Truthy(stage1_majority_results)
    /\ \E k \in DOMAIN label_to_model : stage2_input[k].response = NO_RESPONSE

\* ---------------------------------------------------------------- progress counters

\* The completed values of the per-model events of streaming stage k, in order.
CompletedValues(k) ==
    LET per_model == SelectSeq(events[k],
                         LAMBDA e : e.type \in {"model_complete", "model_failed"})
    IN  [ i \in DOMAIN per_model |-> per_model[i].completed ]

\* The i-th per-model event of a stage carries completed = i.
CountsUp(k) == \A i \in DOMAIN CompletedValues(k) : CompletedValues(k)[i] = i

\* C36: in each streaming stage the completed values of successive model_complete and
\* model_failed events are strictly increasing, running from 1 to total.
C36_CompletedCountsUp ==
    mode = "quorum" => CountsUp(1) /\ CountsUp(2)

\* What holds: stage 1 counts up; in stage 2 a model_failed event carries the number
\* of settled judge calls and a model_complete event the number of rankings so far.
C36_Stage1CountsUp ==
    mode = "quorum" =>
        /\ CountsUp(1)
        /\ \A i \in DOMAIN events[2] :
              LET e == events[2][i]
                  before == SelectSeq(SubSeq(events[2], 1, i),
                                LAMBDA x : x.type \in {"model_complete", "model_failed"})
              IN  /\ e.type = "model_failed" => e.completed = Len(before)
                  /\ e.type = "model_complete" =>
                        e.completed = Len(SelectSeq(before, LAMBDA x : x.type = "model_complete"))

\* Stage 2: a judge failed, then another judge answered, and both events carry
\* completed = 1.
C36_RepeatedValueReached ==
    /\ mode = "quorum"
    /\ Len(CompletedValues(2)) >= 2
    /\ events[2][1].type = "model_failed"
    /\ events[2][2].type = "model_complete"
    /\ CompletedValues(2)[1] = 1
    /\ CompletedValues(2)[2] = 1

\* ---------------------------------------------------------------- majority snapshot

\* a is b with some elements left out.
RECURSIVE IsSubList(_, _)
IsSubList(a, b) ==
    IF a = <<>> THEN TRUE
    ELSE IF b = <<>> THEN FALSE
    ELSE IF Head(a) = Head(b) THEN IsSubList(Tail(a), Tail(b))
    ELSE IsSubList(a, Tail(b))

\* C37: in a streaming stage a majority_reached event precedes the stage_complete
\* event, and its results are a sub-list of the stage_complete results: the same
\* records, unchanged, in the same relative order.
C37_SnapshotIsSubListOfFinal ==
    mode = "quorum" =>
        \A k \in {1, 2} :
            \A i, j \in DOMAIN events[k] :
                (events[k][i].type = "majority_reached" /\ events[k][j].type = "stage_complete")
                    => /\ i < j
                       /\ IsSubList(events[k][i].results, events[k][j].results)

\* Stage 1 completed after a majority snapshot of two records, with a third record
\* (an answer or a placeholder) standing before them in the final list.
C37_Witness ==
    /\ mode = "quorum"
    /\ \E i, j \in DOMAIN events[1] :
          /\ events[1][i].type = "majority_reached"
          /\ events[1][j].type = "stage_complete"
          /\ Len(events[1][i].results) = 2
          /\ Len(events[1][j].results) = 3
          /\ events[1][j].results[1] # events[1][i].results[1]

\* Stage 2 completed with more rankings than its majority snapshot held.
C37_Stage2SnapshotGrown ==
    /\ mode = "quorum"
    /\ \E i, j \in DOMAIN events[2] :
          /\ events[2][i].type = "majority_reached"
          /\ events[2][j].type = "stage_complete"
          /\ Len(events[2][i].results) < Len(events[2][j].results)

\* ---------------------------------------------------------------- rankings_count

\* C38: for every aggregate entry rankings_count is at most the number of judgment
\* records: each judge contributes at most one position to each worker.
C38_CountAtMostJudgments ==
    Aggregated =>
        \A i \in DOMAIN aggregate[1] : aggregate[1][i].rankings_count <= Len(stage2_results)

\* What the code computes: rankings_count is the number of positions in all parsed
\* rankings whose label the map gives to the worker.
C38_CountIsPositionsReceived ==
    Aggregated =>
        \A i \in DOMAIN aggregate[1] :
            aggregate[1][i].rankings_count = Len(PositionsReceived(aggregate[1][i].model))

\* Worker 1 holds the first two labels (placeholder and retry record); one judge ranks
\* both, and worker 1 is counted twice for one judgment.
C38_CountedTwiceReached ==
    /\ Aggregated
    /\ Len(stage1_results) = 3
    /\ stage1_results[1].response = MIGHT_RETRY
    /\ label_to_model = << stage1_results[1].model, stage1_results[2].model >>
    /\ Len(stage2_results) = 1
    /\ \E i \in DOMAIN aggregate[1] :
          aggregate[1][i].model = 1 /\ aggregate[1][i].rankings_count = 2

\* ---------------------------------------------------------------- marker without labels

\* The labels of a piece of text, in order.
LabelsIn(section) == SelectSeq(section, LAMBDA tok : tok \in LabelTokens)

\* C39: with the marker present and no label in the verdict section the extractor
\* returns the empty sequence, whatever labels stand before the marker; with the
\* marker present the result never holds a label from outside the verdict section.
C39_NoFallbackWithMarker ==
    (Parsed /\ HasMarker(ranking_text[1])) =>
        /\ LabelsIn(VerdictSection(ranking_text[1])) = <<>> => parsed_ranking[1] = <<>>
        /\ LabelsIn(AfterFirstMarker(ranking_text[1])) = <<>> => parsed_ranking[1] = <<>>
        /\ IsSubList(parsed_ranking[1], LabelsIn(VerdictSection(ranking_text[1])))

\* A text with a label before the marker and none after it was parsed to the empty
\* sequence.
C39_Witness ==
    /\ Parsed
    /\ HasMarker(ranking_text[1])
    /\ ranking_text[1][1] \in LabelTokens
    /\ LabelsIn(AfterFirstMarker(ranking_text[1])) = <<>>
    /\ parsed_ranking[1] = <<>>

\* ---------------------------------------------------------------- termination

\* Every call that was issued settles, and the coordinator takes its next step when
\* it can: the event loop resumes a coroutine whose awaited calls have all settled.
SpecFair == Init /\ [][Next]_vars /\ WF_vars(Next)

\* The run is over: run_full_council returned (with a synthesis or with the error
\* result), or the streamed run has sent stage3_complete.
Terminal ==
    \/ pc = "failed"
    \/ pc = "done" /\ stage3_result # None
                   /\ (mode # "full" => sse # <<>> /\ sse[Len(sse)] = "stage3_complete")

C40_BatchEndReached ==
    /\ Terminal
    /\ mode = "batch"
    /\ Len(calls) = 4
    /\ stage2_results = <<>>
    /\ judges # <<>>

====
